---- MODULE Spec2Model ----
(***************************************************************************)
(* Controller of the distributed Minecraft status probing network:         *)
(* the probe session manager (websocket/server.ts), the credentials map    *)
(* with its file watcher, and the task dispatcher (probeManager.ts).       *)
(*                                                                         *)
(* Node.js runs every handler to completion, so each handler is one        *)
(* action.  Strings the code inspects (the Authorization header, the       *)
(* secrets) are sequences of one-character strings.                        *)
(***************************************************************************)
EXTENDS Integers, Sequences, FiniteSets, TLC

\* ---------------------------------------------------------------- bounds
MaxConns == 2
MaxCalls == 2

Conns == 1..MaxConns
CallIds == 1..MaxCalls

\* ------------------------------------------------------- input alphabets
NullParam == "<null>"
ProbeIds == {"alpha", "beta"}
IdParams == ProbeIds \cup {NullParam, ""}
Regions == {"us", "eu"}
RegionParams == {"us", NullParam}

BearerPrefix == <<"B", "e", "a", "r", "e", "r", " ">>
SecretK == <<"k">>
SecretQ == <<"q">>
Secrets == {SecretK, SecretQ, <<>>}

Header(t) == [present |-> TRUE, text |-> t]
NoHeader == [present |-> FALSE, text |-> <<>>]
Headers ==
  {NoHeader, Header(SecretK)} \cup {Header(BearerPrefix \o s) : s \in Secrets}

\* Contents the credentials file can have.  json is what JSON.parse yields:
\* "throws" for text that is not JSON, "null" for the document null, and
\* "object" with the entries in Object.entries order.
FileMissing == [exists |-> FALSE, json |-> "none", entries |-> <<>>]
FileGarbage == [exists |-> TRUE, json |-> "throws", entries |-> <<>>]
FileNull == [exists |-> TRUE, json |-> "null", entries |-> <<>>]
FileObject(e) == [exists |-> TRUE, json |-> "object", entries |-> e]
ConfigA == FileObject(<< <<"alpha", SecretK>> >>)
ConfigB == FileObject(<< <<"alpha", SecretQ>>, <<"beta", SecretK>> >>)
ConfigC == FileObject(<< <<"beta", <<>> >> >>)
ValidFiles == {ConfigA, ConfigB, ConfigC}
FileContents == {FileMissing, FileGarbage, FileNull} \cup ValidFiles

\* ------------------------------------------------------------ Map helpers
EmptyMap == << >>
MapSet(m, k, v) == [x \in (DOMAIN m) \cup {k} |-> IF x = k THEN v ELSE m[x]]
MapHas(m, k) == k \in DOMAIN m

VARIABLES
  fileContent,   \* content of probes.json on disk
  fileDirty,     \* the file changed since the watcher's last stat poll
  watching,      \* fs.watchFile listener installed
  probeSecrets,  \* server.ts: let probeSecrets
  probes,        \* ProbeManager.probes
  sock,          \* per connection: readyState of its socket
  connId,        \* per connection: the id captured by its handlers
  hooked,        \* per connection: message/close/error handlers attached
  closeCode,     \* per connection: code the controller closed it with
  lastReg,       \* per probe id: the connection registered last
  displaced,     \* per connection: the session it replaced at register
  calls,         \* one record per sendTask call, in call order
  pendingTasks,  \* keys of ProbeManager.pendingTasks
  timers,        \* task ids whose setTimeout is armed
  dropped,       \* kinds of reply frames handleMessage has ignored so far
  bcast,         \* the broadcastTask call in progress, or the last one
  fn,            \* the service function call under study: input, progress, output
  distReq        \* the GET /v1/distributed/:server request in progress

authVars == <<fileContent, fileDirty, watching, probeSecrets>>
connVars == <<probes, sock, connId, hooked, closeCode, lastReg, displaced>>
taskVars == <<calls, pendingTasks, timers, dropped, bcast>>
httpVars == <<fn, distReq>>
vars == <<fileContent, fileDirty, watching, probeSecrets, probes, sock,
          connId, hooked, closeCode, lastReg, displaced, calls,
          pendingTasks, timers, dropped, bcast, fn, distReq>>

\* ------------------------------------------------------- string helpers
StartsWith(s, p) == Len(s) >= Len(p) /\ SubSeq(s, 1, Len(p)) = p
Slice(s, n) == SubSeq(s, n + 1, Len(s))
Falsy(x) == x = NullParam \/ x = ""
MapDel(m, k) == [x \in (DOMAIN m) \ {k} |-> m[x]]

\* ------------------------------------------------------ credentials map
\* for (const [id, secret] of Object.entries(config)) newSecrets.set(id, secret)
RECURSIVE BuildSecrets(_, _, _)
BuildSecrets(entries, i, acc) ==
  IF i > Len(entries) THEN acc
  ELSE BuildSecrets(entries, i + 1, MapSet(acc, entries[i][1], entries[i][2]))

\* A load that updates the live map entry by entry.
LoadProbeSecretsInPlace(old, f) ==
  IF ~f.exists THEN EmptyMap
  ELSE IF f.json # "object" THEN old
  ELSE BuildSecrets(f.entries, 1, old)

\* A load that treats a missing file like an unreadable one.
LoadProbeSecretsKeepOnMissing(old, f) ==
  IF ~f.exists \/ f.json # "object" THEN old
  ELSE BuildSecrets(f.entries, 1, EmptyMap)

\* A load that empties the live map before it parses the file.
LoadProbeSecretsClearFirst(old, f) ==
  IF ~f.exists THEN EmptyMap
  ELSE IF f.json # "object" THEN EmptyMap
  ELSE BuildSecrets(f.entries, 1, EmptyMap)

\* The value of probeSecrets after loadProbeSecrets() ran on file f.
LoadProbeSecrets(old, f) ==
  IF ~f.exists THEN EmptyMap
  ELSE IF f.json # "object" THEN old
  ELSE BuildSecrets(f.entries, 1, EmptyMap)

\* watchProbeSecrets(): the listener is installed only if the file exists.
WatchInstalled(f) == f.exists

\* A check that strips the prefix when present instead of requiring it.
ValidateProbeAuthNoPrefix(secrets, probeId, authHeader) ==
  IF ~authHeader.present \/ authHeader.text = <<>> THEN FALSE
  ELSE IF ~MapHas(secrets, probeId) THEN FALSE
  ELSE IF secrets[probeId] = <<>> THEN FALSE
  ELSE (IF StartsWith(authHeader.text, BearerPrefix)
        THEN Slice(authHeader.text, 7) ELSE authHeader.text) = secrets[probeId]

ValidateProbeAuth(secrets, probeId, authHeader) ==
  IF ~authHeader.present \/ authHeader.text = <<>>
       \/ ~StartsWith(authHeader.text, BearerPrefix)
  THEN FALSE
  ELSE IF ~MapHas(secrets, probeId) THEN FALSE
  ELSE IF secrets[probeId] = <<>> THEN FALSE
  ELSE Slice(authHeader.text, 7) = secrets[probeId]

\* The file is written, replaced, created or deleted on disk.
FileChange(f) ==
  /\ f # fileContent
  /\ fileContent' = f
  /\ fileDirty' = TRUE
  /\ UNCHANGED <<watching, probeSecrets>>
  /\ UNCHANGED connVars
  /\ UNCHANGED taskVars

  /\ UNCHANGED httpVars
\* A reload that also drops the sessions of the ids that the new map no
\* longer holds.
WatchPollDropsSessions ==
  /\ watching
  /\ fileDirty
  /\ probeSecrets' = LoadProbeSecrets(probeSecrets, fileContent)
  /\ fileDirty' = FALSE
  /\ probes' = [id \in {i \in DOMAIN probes : MapHas(probeSecrets', i)} |->
                  probes[id]]
  /\ UNCHANGED <<fileContent, watching>>
  /\ UNCHANGED <<sock, connId, hooked, closeCode, lastReg, displaced>>
  /\ UNCHANGED taskVars
  /\ UNCHANGED httpVars

\* The watchFile listener fires: curr.mtime !== prev.mtime compares two Date
\* objects and is always true, so every firing reloads.
WatchPoll ==
  /\ watching
  /\ fileDirty
  /\ probeSecrets' = LoadProbeSecrets(probeSecrets, fileContent)
  /\ fileDirty' = FALSE
  /\ UNCHANGED <<fileContent, watching>>
  /\ UNCHANGED connVars
  /\ UNCHANGED taskVars

  /\ UNCHANGED httpVars
\* ------------------------------------------------------------- registry
\* existing.socket.close(): an open socket starts closing, else no effect.
SocketClose(s, c) == IF s[c] = "open" THEN [s EXCEPT ![c] = "closing"] ELSE s

\* A register that keeps the session already present under id.
RegisterKeepFirst(id, region, c) ==
  /\ sock' = [sock EXCEPT ![c] = "open"]
  /\ probes' = IF MapHas(probes, id) THEN probes
               ELSE MapSet(probes, id, [conn |-> c, region |-> region])
  /\ displaced' = [displaced EXCEPT
                     ![c] = IF MapHas(probes, id) THEN probes[id].conn ELSE 0]
  /\ lastReg' = [lastReg EXCEPT ![id] = c]

Register(id, region, c) ==
  /\ sock' = [(IF MapHas(probes, id) THEN SocketClose(sock, probes[id].conn)
               ELSE sock) EXCEPT ![c] = "open"]
  /\ probes' = MapSet(probes, id, [conn |-> c, region |-> region])
  /\ displaced' = [displaced EXCEPT
                     ![c] = IF MapHas(probes, id) THEN probes[id].conn ELSE 0]
  /\ lastReg' = [lastReg EXCEPT ![id] = c]

Unregister(id) == probes' = MapDel(probes, id)

\* A connection arrives at /v1/stream (setupWebSocket's route handler).
Connect(c, id, region, auth) ==
  /\ sock[c] = "fresh"
  /\ \A d \in Conns : d < c => sock[d] # "fresh"
  /\ IF Falsy(id) \/ Falsy(region)
     THEN /\ sock' = [sock EXCEPT ![c] = "closing"]
          /\ closeCode' = [closeCode EXCEPT ![c] = 4002]
          /\ UNCHANGED <<probes, connId, hooked, lastReg, displaced>>
     ELSE IF ~ValidateProbeAuth(probeSecrets, id, auth)
     THEN /\ sock' = [sock EXCEPT ![c] = "closing"]
          /\ closeCode' = [closeCode EXCEPT ![c] = 4001]
          /\ UNCHANGED <<probes, connId, hooked, lastReg, displaced>>
     ELSE /\ Register(id, region, c)
          /\ connId' = [connId EXCEPT ![c] = id]
          /\ hooked' = [hooked EXCEPT ![c] = TRUE]
          /\ UNCHANGED closeCode
  /\ UNCHANGED authVars
  /\ UNCHANGED taskVars

  /\ UNCHANGED httpVars
\* The peer closes its end: the socket is closing, its close event pending.
PeerClose(c) ==
  /\ sock[c] = "open"
  /\ sock' = [sock EXCEPT ![c] = "closing"]
  /\ UNCHANGED <<probes, connId, hooked, closeCode, lastReg, displaced>>
  /\ UNCHANGED authVars
  /\ UNCHANGED taskVars

  /\ UNCHANGED httpVars
\* A close handler that tells the dispatcher: the waiters of the tasks sent
\* to the vanished connection are dropped, their timers cleared and their
\* promises resolved with a disconnect error.
CloseEventNotify(c) ==
  /\ sock[c] = "closing"
  /\ sock' = [sock EXCEPT ![c] = "closed"]
  /\ IF hooked[c] THEN Unregister(connId[c]) ELSE UNCHANGED probes
  /\ LET gone == {k \in pendingTasks : calls[k].conn = c}
     IN /\ pendingTasks' = pendingTasks \ gone
        /\ timers' = timers \ gone
        /\ calls' = [k \in 1..Len(calls) |->
                       IF k \in gone
                       THEN [calls[k] EXCEPT
                               !.nres = @ + 1,
                               !.value = [id |-> k, success |-> FALSE,
                                          error |-> "Probe disconnected"]]
                       ELSE calls[k]]
  /\ UNCHANGED <<connId, hooked, closeCode, lastReg, displaced>>
  /\ UNCHANGED <<dropped, bcast>>
  /\ UNCHANGED authVars

  /\ UNCHANGED httpVars
\* socket.on('close'): unregister(id) with the id of this connection.
CloseEvent(c) ==
  /\ sock[c] = "closing"
  /\ sock' = [sock EXCEPT ![c] = "closed"]
  /\ IF hooked[c] THEN Unregister(connId[c]) ELSE UNCHANGED probes
  /\ UNCHANGED <<connId, hooked, closeCode, lastReg, displaced>>
  /\ UNCHANGED authVars
  /\ UNCHANGED taskVars

  /\ UNCHANGED httpVars
\* socket.on('error'): unregister(id); ws emits close afterwards.
ErrorEvent(c) ==
  /\ sock[c] = "open"
  /\ hooked[c]
  /\ sock' = [sock EXCEPT ![c] = "closing"]
  /\ Unregister(connId[c])
  /\ UNCHANGED <<connId, hooked, closeCode, lastReg, displaced>>
  /\ UNCHANGED authVars
  /\ UNCHANGED taskVars

  /\ UNCHANGED httpVars
\* ----------------------------------------------------------- dispatcher
\* A PingResult.  id 0 is the empty string.
Result(id, success, error) == [id |-> id, success |-> success, error |-> error]
NoResult == Result(-1, FALSE, "<pending>")
Rejected == Result(-1, FALSE, "<rejected>")
NotFound == Result(0, FALSE, "Probe not found")
TaskTimeout(taskId) == Result(taskId, FALSE, "Task timeout")

\* JSON.parse of a reply frame.
ParseFrame(m) ==
  Result(m.id, m.success, IF m.success THEN "" ELSE "ping failed")

\* ws: WebSocket.send throws only while the socket is still connecting; on
\* a closing or closed socket the frame is discarded without an error.
SocketSendThrowsUnlessOpen(readyState) == readyState # "open"
SocketSendThrows(readyState) == readyState = "connecting"
SocketSendWrites(readyState) == readyState = "open"

\* The text frames a probe sends.  Reply frames: a result object with any
\* id minted so far or an id nobody minted (0).  Malformed frames: text that
\* is not JSON, and the JSON texts null, a number and a string, none of
\* which carries an id.
Frames ==
  [conn : Conns, id : 0..MaxCalls, success : BOOLEAN, text : {"object"}]
MalformedTexts == {"garbage", "null", "number", "string"}
MalformedFrames ==
  [conn : Conns, id : {0}, success : {FALSE}, text : MalformedTexts]

\* JSON.parse(message) followed by result.id throws: on text that is not
\* JSON, and on null, which has no properties.
ReadingIdThrows(m) == m.text \in {"garbage", "null"}

\* A catch block that also drops the session the frame came from.
CatchInvalidClosesSession(c) ==
  /\ Unregister(connId[c])
  /\ sock' = SocketClose(sock, c)
  /\ UNCHANGED <<connId, hooked, closeCode, lastReg, displaced>>

\* catch (err) { console.error(...) }
CatchInvalid(c) == UNCHANGED connVars

NoBroadcast == [status |-> "idle", snapshot |-> {}, results |-> EmptyMap]

\* The record of the sendTask(probeId) call that gets index k, made when the
\* registry is reg and the sockets are in state s; b tells whether
\* broadcastTask made the call.
NewCall(reg, s, probeId, k, b) ==
  IF ~MapHas(reg, probeId)
  THEN [probe |-> probeId, conn |-> 0, taskId |-> 0, wrote |-> FALSE,
        bc |-> b, value |-> NotFound, nres |-> 1]
  ELSE [probe |-> probeId, conn |-> reg[probeId].conn, taskId |-> k,
        wrote |-> SocketSendWrites(s[reg[probeId].conn]),
        bc |-> b,
        value |-> IF SocketSendThrows(s[reg[probeId].conn])
                  THEN Rejected ELSE NoResult,
        nres |-> 0]

\* What the promise of call k becomes when resolve(result) is called on it.
ResolveCall(cs, k, result) ==
  [cs EXCEPT ![k].nres = @ + 1,
             ![k].value = IF @ = NoResult THEN result ELSE @]

\* A join that returns as soon as the first task has settled.
AfterAwaitFirst(b, call, result) ==
  IF ~call.bc \/ call.value # NoResult THEN b
  ELSE [b EXCEPT !.results = MapSet(b.results, call.probe, result),
                 !.status = IF b.status = "pending" THEN "returned" ELSE @]

\* broadcastTask's continuation after `await this.sendTask(...)`:
\* results.set(probe.id, result), and Promise.all settling.
AfterAwait(b, call, result) ==
  IF ~call.bc \/ call.value # NoResult THEN b
  ELSE LET r == MapSet(b.results, call.probe, result)
       IN [b EXCEPT !.results = r,
                    !.status = IF b.status = "pending" /\ DOMAIN r = b.snapshot
                               THEN "returned" ELSE @]

\* sendTask(probeId) called directly.
SendTask(probeId) ==
  /\ Len(calls) < MaxCalls
  /\ LET k == Len(calls) + 1
         call == NewCall(probes, sock, probeId, k, FALSE)
     IN /\ calls' = Append(calls, call)
        /\ pendingTasks' = IF call.taskId = 0 THEN pendingTasks
                           ELSE pendingTasks \cup {k}
        /\ timers' = IF call.taskId = 0 THEN timers ELSE timers \cup {k}
  /\ UNCHANGED <<dropped, bcast>>
  /\ UNCHANGED authVars
  /\ UNCHANGED connVars

  /\ UNCHANGED httpVars
\* The order in which broadcastTask walks the snapshot.
ProbeOrder == <<"alpha", "beta">>
InSnapshot(id) == MapHas(probes, id)
SnapshotSeq == SelectSeq(ProbeOrder, InSnapshot)

\* broadcastTask: snapshot, one sendTask per probe, all in the same tick.
\* One broadcast is followed at a time: bc marks the calls of the current one.
BroadcastTask ==
  /\ bcast.status # "pending"
  /\ Len(calls) + Len(SnapshotSeq) <= MaxCalls
  /\ LET n == Len(SnapshotSeq)
         base == Len(calls)
         new == [j \in 1..n |->
                   NewCall(probes, sock, SnapshotSeq[j], base + j, TRUE)]
         ids == {base + j : j \in 1..n}
         old == [k \in 1..base |-> [calls[k] EXCEPT !.bc = FALSE]]
     IN /\ calls' = old \o new
        /\ pendingTasks' = pendingTasks \cup ids
        /\ timers' = timers \cup ids
        /\ bcast' = [status |-> IF n = 0 THEN "returned"
                                ELSE IF \E j \in 1..n : new[j].value = Rejected
                                THEN "rejected" ELSE "pending",
                     snapshot |-> DOMAIN probes,
                     results |-> EmptyMap]
  /\ UNCHANGED dropped
  /\ UNCHANGED authVars
  /\ UNCHANGED connVars

  /\ UNCHANGED fn
\* A handleMessage that resolves the waiter without clearTimeout.
HandleMessageNoClear(c, m) ==
  /\ m.conn = c
  /\ hooked[c]
  /\ sock[c] \in {"open", "closing"}
  /\ m.id <= Len(calls)
  /\ IF ReadingIdThrows(m)
     THEN /\ CatchInvalid(c)
          /\ UNCHANGED <<calls, pendingTasks, timers, bcast>>
     ELSE /\ UNCHANGED connVars
          /\ IF m.id \in pendingTasks
             THEN /\ calls' = ResolveCall(calls, m.id, ParseFrame(m))
                  /\ bcast' = AfterAwait(bcast, calls[m.id], ParseFrame(m))
                  /\ pendingTasks' = pendingTasks \ {m.id}
                  /\ UNCHANGED timers
             ELSE UNCHANGED <<calls, pendingTasks, timers, bcast>>
  /\ UNCHANGED authVars
  /\ UNCHANGED httpVars
\* A handleMessage that resolves the waiter and leaves it in the map.
HandleMessageNoDelete(c, m) ==
  /\ m.conn = c
  /\ hooked[c]
  /\ sock[c] \in {"open", "closing"}
  /\ m.id <= Len(calls)
  /\ IF ReadingIdThrows(m)
     THEN /\ CatchInvalid(c)
          /\ UNCHANGED <<calls, pendingTasks, timers, bcast>>
     ELSE /\ UNCHANGED connVars
          /\ IF m.id \in pendingTasks
             THEN /\ timers' = timers \ {m.id}
                  /\ calls' = ResolveCall(calls, m.id, ParseFrame(m))
                  /\ bcast' = AfterAwait(bcast, calls[m.id], ParseFrame(m))
                  /\ UNCHANGED pendingTasks
             ELSE UNCHANGED <<calls, pendingTasks, timers, bcast>>
  /\ UNCHANGED authVars
  /\ UNCHANGED httpVars
\* socket.on('message') -> probeManager.handleMessage(id, data): a reply
\* frame m arrives on connection c.  A probe can name any task id minted so
\* far, or an id nobody minted (0).
HandleMessage(c, m) ==
  /\ m.conn = c
  /\ hooked[c]
  /\ sock[c] \in {"open", "closing"}
  /\ m.id <= Len(calls)
  /\ IF ReadingIdThrows(m)
     THEN /\ CatchInvalid(c)
          /\ UNCHANGED <<calls, pendingTasks, timers, bcast>>
     ELSE /\ UNCHANGED connVars
          /\ IF m.id \in pendingTasks
             THEN /\ timers' = timers \ {m.id}
                  /\ calls' = ResolveCall(calls, m.id, ParseFrame(m))
                  /\ bcast' = AfterAwait(bcast, calls[m.id], ParseFrame(m))
                  /\ pendingTasks' = pendingTasks \ {m.id}
             ELSE UNCHANGED <<calls, pendingTasks, timers, bcast>>
  /\ UNCHANGED authVars
  /\ UNCHANGED httpVars
\* A timeout callback that resolves the caller and leaves the waiter in the
\* map.
TimeoutFireKeepsWaiter(t) ==
  /\ t \in timers
  /\ timers' = timers \ {t}
  /\ calls' = ResolveCall(calls, t, TaskTimeout(t))
  /\ bcast' = AfterAwait(bcast, calls[t], TaskTimeout(t))
  /\ UNCHANGED <<dropped, pendingTasks>>
  /\ UNCHANGED authVars
  /\ UNCHANGED connVars
  /\ UNCHANGED httpVars

\* The setTimeout callback of task t runs.
TimeoutFire(t) ==
  /\ t \in timers
  /\ timers' = timers \ {t}
  /\ pendingTasks' = pendingTasks \ {t}
  /\ calls' = ResolveCall(calls, t, TaskTimeout(t))
  /\ bcast' = AfterAwait(bcast, calls[t], TaskTimeout(t))
  /\ UNCHANGED dropped
  /\ UNCHANGED authVars
  /\ UNCHANGED connVars

  /\ UNCHANGED httpVars
\* ------------------------------------------------------ address parsing
\* JavaScript strings are sequences of one-character strings; indices in the
\* operators below are JavaScript's (from 0, -1 for "not found").
Digits == <<"0", "1", "2", "3", "4", "5", "6", "7", "8", "9">>
IsDigit(ch) == \E i \in 1..10 : Digits[i] = ch
DigitVal(ch) == (CHOOSE i \in 1..10 : Digits[i] = ch) - 1
IndexOf(s, ch) ==
  IF \E i \in 1..Len(s) : s[i] = ch
  THEN (CHOOSE i \in 1..Len(s) : s[i] = ch /\ \A j \in 1..(i - 1) : s[j] # ch) - 1
  ELSE -1
LastIndexOf(s, ch) ==
  IF \E i \in 1..Len(s) : s[i] = ch
  THEN (CHOOSE i \in 1..Len(s) :
          s[i] = ch /\ \A j \in (i + 1)..Len(s) : s[j] # ch) - 1
  ELSE -1
Substring(s, from, to) == SubSeq(s, from + 1, to)
CountOf(s, ch) == Cardinality({i \in 1..Len(s) : s[i] = ch})
Includes(s, ch) == \E i \in 1..Len(s) : s[i] = ch

\* parseInt(s, 10): leading blanks, an optional sign, then the longest run
\* of digits; NaN when there is no digit.
NaN == [nan |-> TRUE, val |-> 0]
Num(n) == [nan |-> FALSE, val |-> n]
RECURSIVE SkipBlanks(_)
SkipBlanks(s) ==
  IF s # <<>> /\ Head(s) = " " THEN SkipBlanks(Tail(s)) ELSE s
RECURSIVE DigitRun(_, _)
DigitRun(s, acc) ==
  IF s # <<>> /\ IsDigit(Head(s))
  THEN DigitRun(Tail(s), acc * 10 + DigitVal(Head(s)))
  ELSE acc
ParseInt(s) ==
  LET t == SkipBlanks(s)
      neg == t # <<>> /\ Head(t) = "-"
      u == IF t # <<>> /\ Head(t) \in {"-", "+"} THEN Tail(t) ELSE t
  IN IF u = <<>> \/ ~IsDigit(Head(u)) THEN NaN
     ELSE Num(IF neg THEN 0 - DigitRun(u, 0) ELSE DigitRun(u, 0))

DefaultPort == 25565
PortOr(n) == IF n.nan THEN DefaultPort ELSE n.val

\* A parseAddress without the branch for the bracketed form.
ParseAddressNoBrackets(address) ==
  LET lastColon == LastIndexOf(address, ":")
      colonCount == CountOf(address, ":")
  IN IF colonCount > 1 THEN [host |-> address, port |-> DefaultPort]
     ELSE IF lastColon # -1
     THEN [host |-> Substring(address, 0, lastColon),
           port |-> PortOr(ParseInt(Slice(address, lastColon + 1)))]
     ELSE [host |-> address, port |-> DefaultPort]

\* dns.ts parseAddress.
ParseAddress(address) ==
  LET closeBracket == IndexOf(address, "]")
      portPart == Slice(address, closeBracket + 1)
      lastColon == LastIndexOf(address, ":")
      colonCount == CountOf(address, ":")
  IN IF StartsWith(address, <<"[">>) /\ closeBracket # -1
     THEN IF StartsWith(portPart, <<":">>)
          THEN [host |-> Substring(address, 1, closeBracket),
                port |-> PortOr(ParseInt(Slice(portPart, 1)))]
          ELSE [host |-> Substring(address, 1, closeBracket),
                port |-> DefaultPort]
     ELSE IF colonCount > 1 THEN [host |-> address, port |-> DefaultPort]
     ELSE IF lastColon # -1
     THEN [host |-> Substring(address, 0, lastColon),
           port |-> PortOr(ParseInt(Slice(address, lastColon + 1)))]
     ELSE [host |-> address, port |-> DefaultPort]

\* The pieces of s between the occurrences of ch.
RECURSIVE Split(_, _)
Split(s, ch) ==
  IF IndexOf(s, ch) = -1 THEN <<s>>
  ELSE <<Substring(s, 0, IndexOf(s, ch))>>
         \o Split(Slice(s, IndexOf(s, ch) + 1), ch)
HexDigits ==
  {Digits[i] : i \in 1..10}
    \cup {"a", "b", "c", "d", "e", "f", "A", "B", "C", "D", "E", "F"}
AllIn(s, set) == \A i \in 1..Len(s) : s[i] \in set
\* IPV4_REGEX and IPV6_REGEX.
IsIPv4(s) ==
  LET parts == Split(s, ".")
  IN /\ Len(parts) = 4
     /\ \A i \in 1..4 : Len(parts[i]) \in 1..3 /\ AllIn(parts[i], {Digits[j] : j \in 1..10})
IsIPv6(s) ==
  LET parts == Split(s, ":")
  IN /\ Len(parts) \in 3..8
     /\ \A i \in 1..Len(parts) : Len(parts[i]) <= 4 /\ AllIn(parts[i], HexDigits)
IsIpLiteral(s) == IsIPv4(s) \/ IsIPv6(s)

\* The addresses a client writes: a host, and a port or none (0); an IPv6
\* literal goes in brackets when a port follows, and with or without them
\* when none does.
HostNames == {<<"m", "c", ".", "i", "o">>, <<"l", "o", "c", "a", "l", "h", "o", "s", "t">>, <<"p", "l", "a", "y", "-", "1", ".", "e", "x", "a", "m", "p", "l", "e", ".", "n", "e", "t">>}
IPv4Hosts == {<<"1", ".", "2", ".", "3", ".", "4">>, <<"2", "0", "3", ".", "0", ".", "1", "1", "3", ".", "2", "5">>}
IPv6Hosts == {<<":", ":", "1">>, <<"2", "0", "0", "1", ":", "d", "b", "8", ":", ":", "1", "f">>, <<":", ":">>}
StatedPorts == {1, 80, 443, 19132, 25565, 65535}
RECURSIVE Decimal(_)
Decimal(n) ==
  IF n < 10 THEN <<Digits[n + 1]>>
  ELSE Decimal(n \div 10) \o <<Digits[(n % 10) + 1]>>
FormatAddress(h, p, brackets) ==
  (IF brackets THEN <<"[">> \o h \o <<"]">> ELSE h)
    \o (IF p = 0 THEN <<>> ELSE <<":">> \o Decimal(p))
WrittenAddresses ==
  {[host |-> h, port |-> p, brackets |-> FALSE] :
      h \in HostNames \cup IPv4Hosts, p \in StatedPorts \cup {0}}
    \cup {[host |-> h, port |-> p, brackets |-> TRUE] :
            h \in IPv6Hosts, p \in StatedPorts \cup {0}}
    \cup {[host |-> h, port |-> 0, brackets |-> FALSE] : h \in IPv6Hosts}

\* A parseAddress call on a written address.
ParseCall(w) ==
  [name |-> "parseAddress", written |-> w,
   address |-> FormatAddress(w.host, w.port, w.brackets),
   done |-> FALSE, out |-> [host |-> <<>>, port |-> 0]]
ParseAddressReturn ==
  /\ fn.name = "parseAddress"
  /\ ~fn.done
  /\ fn' = [fn EXCEPT !.done = TRUE, !.out = ParseAddress(fn.address)]
  /\ UNCHANGED distReq
  /\ UNCHANGED authVars
  /\ UNCHANGED connVars
  /\ UNCHANGED taskVars

\* ------------------------------------------------------------------ DNS
\* The names and addresses of the DNS under study.
NameA == <<"a", ".", "i", "o">>
NameB == <<"b", ".", "i", "o">>
NameC == <<"c", ".", "i", "o">>
Addr4 == <<"1", ".", "2", ".", "3", ".", "4">>
Addr4b == <<"5", ".", "6", ".", "7", ".", "8">>
Addr6 == <<":", ":", "1">>
ZoneNames == {NameA, NameB, NameC}

\* What the resolver answers for one name: the CNAME, A, AAAA answers for the
\* name and the SRV answer for _minecraft._tcp.<name>, each a list.  A query
\* that fails or exceeds DNS_TIMEOUT yields the fallback [], the empty list.
NoAnswers == [cname |-> <<>>, a |-> <<>>, aaaa |-> <<>>, srv |-> <<>>]
Lookup(zone, name) == IF name \in DOMAIN zone THEN zone[name] ELSE NoAnswers

SrvPrefix == <<"_", "m", "i", "n", "e", "c", "r", "a", "f", "t", ".", "_", "t", "c", "p", ".">>
DnsRecord(hostname, type, data) ==
  [hostname |-> hostname, type |-> type, data |-> data]
SrvData(srvRecord) ==
  <<"1", " ", "1", " ">> \o Decimal(srvRecord.port) \o <<" ">>
    \o srvRecord.target
NoSrv == [target |-> <<>>, port |-> 0]
ARecords(host, ips) == [i \in 1..Len(ips) |-> DnsRecord(host, "A", ips[i])]
AAAARecords(host, ips) ==
  [i \in 1..Len(ips) |-> DnsRecord(host, "AAAA", ips[i])]

\* dns.ts resolveSrvRecord: the first SRV answer, or null (NoSrv).
ResolveSrvRecord(zone, host) ==
  LET records == Lookup(zone, host).srv
  IN IF Len(records) > 0
     THEN [target |-> records[1].name, port |-> records[1].port]
     ELSE NoSrv

\* dns.ts resolveIp: the host itself when it is a literal, else the first A
\* answer, else the first AAAA answer, else null (the empty string).
ResolveIp(zone, host) ==
  IF IsIPv4(host) THEN host
  ELSE IF IsIPv6(host) THEN host
  ELSE IF Len(Lookup(zone, host).a) > 0 THEN Lookup(zone, host).a[1]
  ELSE IF Len(Lookup(zone, host).aaaa) > 0 THEN Lookup(zone, host).aaaa[1]
  ELSE <<>>

\* A collectDnsRecords(host, srvRecord) call at its entry.  todo is the
\* stack of resolveHostRecords calls still to run, asked the log of the
\* queries sent to the resolver.
CollectCall(zone, host, srvRecord) ==
  [name |-> "collectDnsRecords", zone |-> zone, host |-> host,
   srvRecord |-> srvRecord, entered |-> FALSE, done |-> FALSE,
   todo |-> <<>>, resolved |-> {}, records |-> <<>>, asked |-> <<>>]

\* collectDnsRecords up to its first resolveHostRecords call.
CollectEnter(st) ==
  IF IsIPv4(st.host) \/ IsIPv6(st.host)
  THEN [st EXCEPT !.entered = TRUE, !.done = TRUE]
  ELSE IF st.srvRecord # NoSrv
  THEN [st EXCEPT !.entered = TRUE,
                  !.records = <<DnsRecord(SrvPrefix \o st.host, "SRV",
                                          SrvData(st.srvRecord))>>,
                  !.todo = <<st.srvRecord.target, st.host>>]
  ELSE [st EXCEPT !.entered = TRUE, !.todo = <<st.host>>]

\* A resolveHostRecords that does not look at the resolved set.
ResolveHostRecordsNoGuard(st) ==
  LET host == Head(st.todo)
      rest == Tail(st.todo)
      cnames == Lookup(st.zone, host).cname
      aRecords == Lookup(st.zone, host).a
      aaaaRecords == Lookup(st.zone, host).aaaa
  IN IF IsIPv4(host) \/ IsIPv6(host)
     THEN [st EXCEPT !.todo = rest, !.done = rest = <<>>]
     ELSE IF Len(cnames) > 0
     THEN [st EXCEPT !.resolved = @ \cup {host},
                     !.asked = Append(@, <<host, "CNAME">>),
                     !.records = Append(@, DnsRecord(host, "CNAME", cnames[1])),
                     !.todo = <<cnames[1]>> \o rest]
     ELSE [st EXCEPT !.resolved = @ \cup {host},
                     !.asked = @ \o << <<host, "CNAME">>, <<host, "A">>,
                                       <<host, "AAAA">> >>,
                     !.records = @ \o ARecords(host, aRecords)
                                   \o AAAARecords(host, aaaaRecords),
                     !.todo = rest,
                     !.done = rest = <<>>]

\* A resolveHostRecords that goes on to the A and AAAA queries after it
\* has followed an alias.
ResolveHostRecordsAlsoAddresses(st) ==
  LET host == Head(st.todo)
      rest == Tail(st.todo)
      cnames == Lookup(st.zone, host).cname
      aRecords == Lookup(st.zone, host).a
      aaaaRecords == Lookup(st.zone, host).aaaa
  IN IF host \in st.resolved \/ IsIPv4(host) \/ IsIPv6(host)
     THEN [st EXCEPT !.todo = rest, !.done = rest = <<>>]
     ELSE IF Len(cnames) > 0
     THEN [st EXCEPT !.resolved = @ \cup {host},
                     !.asked = @ \o << <<host, "CNAME">>, <<host, "A">>,
                                       <<host, "AAAA">> >>,
                     !.records = Append(@, DnsRecord(host, "CNAME", cnames[1]))
                                   \o ARecords(host, aRecords)
                                   \o AAAARecords(host, aaaaRecords),
                     !.todo = <<cnames[1]>> \o rest]
     ELSE [st EXCEPT !.resolved = @ \cup {host},
                     !.asked = @ \o << <<host, "CNAME">>, <<host, "A">>,
                                       <<host, "AAAA">> >>,
                     !.records = @ \o ARecords(host, aRecords)
                                   \o AAAARecords(host, aaaaRecords),
                     !.todo = rest,
                     !.done = rest = <<>>]

\* dns.ts resolveHostRecords for the call on top of the stack: one CNAME
\* query, then either the CNAME record and the call for its target, or the A
\* and the AAAA query.
ResolveHostRecords(st) ==
  LET host == Head(st.todo)
      rest == Tail(st.todo)
      cnames == Lookup(st.zone, host).cname
      aRecords == Lookup(st.zone, host).a
      aaaaRecords == Lookup(st.zone, host).aaaa
  IN IF host \in st.resolved \/ IsIPv4(host) \/ IsIPv6(host)
     THEN [st EXCEPT !.todo = rest, !.done = rest = <<>>]
     ELSE IF Len(cnames) > 0
     THEN [st EXCEPT !.resolved = @ \cup {host},
                     !.asked = Append(@, <<host, "CNAME">>),
                     !.records = Append(@, DnsRecord(host, "CNAME", cnames[1])),
                     !.todo = <<cnames[1]>> \o rest]
     ELSE [st EXCEPT !.resolved = @ \cup {host},
                     !.asked = @ \o << <<host, "CNAME">>, <<host, "A">>,
                                       <<host, "AAAA">> >>,
                     !.records = @ \o ARecords(host, aRecords)
                                   \o AAAARecords(host, aaaaRecords),
                     !.todo = rest,
                     !.done = rest = <<>>]

CollectStep(st) ==
  IF ~st.entered THEN CollectEnter(st) ELSE ResolveHostRecords(st)

\* collectDnsRecords run to its return.
RECURSIVE CollectRun(_)
CollectRun(st) == IF st.done THEN st ELSE CollectRun(CollectStep(st))
CollectDnsRecords(zone, host, srvRecord) ==
  CollectRun(CollectCall(zone, host, srvRecord)).records
\* The queries collectDnsRecords sent to the resolver on the way.
CollectDnsQueries(zone, host, srvRecord) ==
  CollectRun(CollectCall(zone, host, srvRecord)).asked
\* The queries of resolveSrvRecord(host) and of resolveIp(host), which asks
\* nothing about a literal.
SrvQueries(host) == << <<SrvPrefix \o host, "SRV">> >>
IpQueries(host) ==
  IF IsIPv4(host) \/ IsIPv6(host) THEN <<>>
  ELSE << <<host, "A">>, <<host, "AAAA">> >>

\* The zones: every name has no CNAME or one to any name of the zone
\* (itself included), and no address or two A answers and an AAAA answer.
CnameAnswers == {<<>>} \cup {<<n>> : n \in ZoneNames}
AddressAnswers ==
  {[a |-> <<>>, aaaa |-> <<>>],
   [a |-> <<Addr4, Addr4b>>, aaaa |-> <<Addr6>>]}
Answers ==
  {[cname |-> c, a |-> x.a, aaaa |-> x.aaaa, srv |-> <<>>] :
      c \in CnameAnswers, x \in AddressAnswers}
Zones == [ZoneNames -> Answers]
SrvArguments ==
  {NoSrv} \cup {[target |-> t, port |-> 25566] : t \in {NameA, NameB, Addr4}}
CollectHosts == {NameA, Addr6}

\* One step of the collectDnsRecords call.
CollectDnsStep ==
  /\ fn.name = "collectDnsRecords"
  /\ ~fn.done
  /\ fn' = CollectStep(fn)
  /\ UNCHANGED distReq
  /\ UNCHANGED authVars
  /\ UNCHANGED connVars
  /\ UNCHANGED taskVars

\* ---------------------------------------------------- direct orchestrator
ErrInvalidHostname ==
  <<"I", "n", "v", "a", "l", "i", "d", " ", "h", "o", "s", "t", "n", "a",
    "m", "e">>
ErrDnsFailedFor ==
  <<"D", "N", "S", " ", "r", "e", "s", "o", "l", "u", "t", "i", "o", "n",
    " ", "f", "a", "i", "l", "e", "d", " ", "f", "o", "r", " ">>
ErrTimeout == <<"t", "i", "m", "e", "o", "u", "t">>
ErrBadPort == <<"b", "a", "d", " ", "p", "o", "r", "t">>
NoError == <<>>
BedrockPort == 19132

\* The ip_info of a status (asn and location, looked up in the GeoIP
\* databases, are left out), or none.
NoIpInfo == [present |-> FALSE, ip |-> <<>>, srv_record |-> NoSrv,
             dns_records |-> <<>>]
IpInfo(ip, srvRecord, dnsRecords) ==
  [present |-> TRUE, ip |-> ip, srv_record |-> srvRecord,
   dns_records |-> dnsRecords]
ServerStatus(online, host, port, error) ==
  [online |-> online, host |-> host, port |-> port, error |-> error,
   ip_info |-> NoIpInfo, type |-> "none"]

\* What a ping did on the network: the transport, the address it connected
\* to and, for Java, the host and port fields of the handshake packet.
NoPing == [sent |-> FALSE, transport |-> "none", connectHost |-> <<>>,
           port |-> 0, handshakeHost |-> <<>>, handshakePort |-> 0]
PingOutcomes == {"online", "timeout"}

\* A pingJavaServer that writes the address it connects to into the
\* handshake.
PingJavaServerConnectHost(host, port, connectHost, pong) ==
  LET targetHost == IF connectHost # <<>> THEN connectHost ELSE host
  IN IF port \notin 0..65535
     THEN [throws |-> TRUE, status |-> ServerStatus(FALSE, host, port, ErrBadPort),
           ping |-> NoPing]
     ELSE [throws |-> FALSE,
           status |-> IF pong = "online"
                      THEN ServerStatus(TRUE, host, port, NoError)
                      ELSE ServerStatus(FALSE, host, port, ErrTimeout),
           ping |-> [sent |-> TRUE, transport |-> "tcp",
                     connectHost |-> targetHost, port |-> port,
                     handshakeHost |-> targetHost, handshakePort |-> port]]

\* pingJavaServer(host, port, 5000, connectHost); the server answers (pong
\* "online") or not ("timeout").  net.Socket.connect throws on a port
\* outside 0..65535, which rejects the promise.
PingJavaServer(host, port, connectHost, pong) ==
  LET targetHost == IF connectHost # <<>> THEN connectHost ELSE host
  IN IF port \notin 0..65535
     THEN [throws |-> TRUE, status |-> ServerStatus(FALSE, host, port, ErrBadPort),
           ping |-> NoPing]
     ELSE [throws |-> FALSE,
           status |-> IF pong = "online"
                      THEN ServerStatus(TRUE, host, port, NoError)
                      ELSE ServerStatus(FALSE, host, port, ErrTimeout),
           ping |-> [sent |-> TRUE, transport |-> "tcp",
                     connectHost |-> targetHost, port |-> port,
                     handshakeHost |-> host, handshakePort |-> port]]

\* pingBedrockServer(host, port); dgram's connect throws on a port outside
\* 1..65535.
PingBedrockServer(host, port, pong) ==
  IF port \notin 1..65535
  THEN [throws |-> TRUE, status |-> ServerStatus(FALSE, host, port, ErrBadPort),
        ping |-> NoPing]
  ELSE [throws |-> FALSE,
        status |-> IF pong = "online"
                   THEN ServerStatus(TRUE, host, port, NoError)
                   ELSE ServerStatus(FALSE, host, port, ErrTimeout),
        ping |-> [sent |-> TRUE, transport |-> "udp",
                  connectHost |-> host, port |-> port,
                  handshakeHost |-> <<>>, handshakePort |-> 0]]

\* A test that takes short literals for hostnames.
InvalidHostnameAlsoLiterals(host) ==
  Len(host) < 4 \/ (~Includes(host, ".") /\ Len(host) < 10)

\* The test for hostnames that are not worth a DNS query.
InvalidHostname(host) ==
  /\ ~IsIpLiteral(host)
  /\ Len(host) < 4 \/ (~Includes(host, ".") /\ Len(host) < 10)

\* An orchestrator that keeps the parsed port for both protocols.
SubstitutePortNever(type, port) == port

\* The port for the protocol: Bedrock takes 19132 for the port 25565.
SubstitutePort(type, port) ==
  IF type = "bedrock"
  THEN (IF port = DefaultPort THEN BedrockPort ELSE port)
  ELSE port

\* A check that never gives up on an unresolved name.
DnsFailedNever(ip, srvHostIsIp) == FALSE
\* if (!ip && !srvHostIsIp)
DnsFailed(ip, srvHostIsIp) == ip = <<>> /\ ~srvHostIsIp

\* status.ts getServerStatus: the status it returns, what its ping did on
\* the network, the name it passed to resolveIp, and the DNS queries it had
\* sent by the time it returned.
GetServerStatus(address, type, zone, pong) ==
  LET original == ParseAddress(address)
      host == original.host
      isIpAddress == IsIpLiteral(host)
      srvRecord == IF type = "java" /\ ~isIpAddress
                   THEN ResolveSrvRecord(zone, host) ELSE NoSrv
      srvHost == IF srvRecord # NoSrv THEN srvRecord.target ELSE host
      port == IF srvRecord # NoSrv THEN srvRecord.port ELSE original.port
      ip == ResolveIp(zone, srvHost)
      srvHostIsIp == IsIpLiteral(srvHost)
      connectHost == IF ip # <<>> THEN ip ELSE srvHost
      dnsRecords == CollectDnsRecords(zone, original.host, srvRecord)
      srvQueries == IF type = "java" /\ ~isIpAddress
                    THEN SrvQueries(host) ELSE <<>>
      ipInfo == IF ip # <<>> \/ Len(dnsRecords) > 0
                THEN IpInfo(ip, srvRecord, dnsRecords) ELSE NoIpInfo
      actualPort == SubstitutePort(type, port)
      pinged == IF type = "bedrock"
                THEN PingBedrockServer(connectHost, actualPort, pong)
                ELSE PingJavaServer(host, port, connectHost, pong)
      status == IF pinged.throws
                THEN ServerStatus(FALSE, original.host, actualPort, ErrBadPort)
                ELSE [pinged.status EXCEPT !.type = type]
  IN IF InvalidHostname(host)
     THEN [status |-> ServerStatus(FALSE, original.host,
                                   SubstitutePort(type, original.port),
                                   ErrInvalidHostname),
           ping |-> NoPing, lookedUp |-> <<>>, queries |-> <<>>]
     ELSE IF DnsFailed(ip, srvHostIsIp)
     THEN [status |-> ServerStatus(FALSE, original.host,
                                   SubstitutePort(type, port),
                                   ErrDnsFailedFor \o srvHost),
           ping |-> NoPing, lookedUp |-> <<srvHost>>,
           queries |-> srvQueries \o IpQueries(srvHost)]
     ELSE [status |->
             [status EXCEPT
                !.ip_info = IF ipInfo.present THEN ipInfo ELSE @,
                !.host = original.host,
                !.port = IF srvRecord = NoSrv THEN actualPort ELSE @],
           ping |-> pinged.ping, lookedUp |-> <<srvHost>>,
           queries |-> srvQueries \o IpQueries(srvHost)
                         \o CollectDnsQueries(zone, original.host, srvRecord)]

\* The zones for the orchestrators: the host with or without an SRV record
\* (to a name or to a literal), with or without an address, directly or
\* through an alias.
SrvPort == 25580
SrvAnswer(target) == <<[name |-> target, port |-> SrvPort]>>
Answer(cname, a, aaaa, srv) ==
  [cname |-> cname, a |-> a, aaaa |-> aaaa, srv |-> srv]
Zone(answerA, answerB) ==
  [n \in {NameA, NameB} |-> IF n = NameA THEN answerA ELSE answerB]
OrchestratorZones ==
  {Zone(NoAnswers, NoAnswers),
   Zone(Answer(<<>>, <<Addr4>>, <<>>, <<>>), NoAnswers),
   Zone(Answer(<<>>, <<>>, <<Addr6>>, <<>>), NoAnswers),
   Zone(Answer(<<NameB>>, <<>>, <<>>, <<>>),
        Answer(<<>>, <<Addr4, Addr4b>>, <<>>, <<>>)),
   Zone(Answer(<<>>, <<Addr4>>, <<>>, SrvAnswer(NameB)),
        Answer(<<>>, <<Addr4b>>, <<>>, <<>>)),
   Zone(Answer(<<>>, <<Addr4>>, <<>>, SrvAnswer(NameB)), NoAnswers),
   Zone(Answer(<<>>, <<>>, <<>>, SrvAnswer(Addr4b)), NoAnswers),
   Zone(Answer(<<>>, <<>>, <<>>, SrvAnswer(NameB)),
        Answer(<<NameA>>, <<Addr4b>>, <<>>, <<>>))}

\* The addresses of the requests: a name with answers in the zones, a name
\* that is too short, an IPv4 and an IPv6 literal; without a port, with the
\* default ports written out, and with another port.
ShortName == <<"m", "c">>
RequestPorts == {0, DefaultPort, BedrockPort, 25570}
RequestAddresses ==
  {[host |-> h, port |-> p, brackets |-> FALSE] :
      h \in {NameA, ShortName, Addr4}, p \in RequestPorts}
    \cup {[host |-> Addr6, port |-> p, brackets |-> TRUE] : p \in RequestPorts}
Protocols == {"java", "bedrock"}

\* A getServerStatus(address, type) call and its return.
StatusCall(w, type, zone, pong) ==
  [name |-> "getServerStatus", written |-> w,
   address |-> FormatAddress(w.host, w.port, w.brackets),
   type |-> type, zone |-> zone, pong |-> pong, done |-> FALSE,
   out |-> [status |-> ServerStatus(FALSE, <<>>, 0, NoError),
            ping |-> NoPing, lookedUp |-> <<>>, queries |-> <<>>]]
GetServerStatusReturn ==
  /\ fn.name = "getServerStatus"
  /\ ~fn.done
  /\ fn' = [fn EXCEPT !.done = TRUE,
                      !.out = GetServerStatus(fn.address, fn.type, fn.zone,
                                              fn.pong)]
  /\ UNCHANGED distReq
  /\ UNCHANGED authVars
  /\ UNCHANGED connVars
  /\ UNCHANGED taskVars

\* ------------------------------------------------------------ VarInt
\* JavaScript numbers under the bitwise operators are 32-bit integers; a
\* byte is a number in 0..255 and a Buffer a sequence of bytes.
MaxVarIntLength == 5
ContinuationBit == 128
RECURSIVE Pow2(_)
Pow2(k) == IF k = 0 THEN 1 ELSE 2 * Pow2(k - 1)

\* value >>> 7 on a 32-bit integer: the sign bit moves down as a data bit.
UnsignedShiftRight7(value) ==
  IF value >= 0 THEN value \div 128 ELSE Pow2(25) + (value \div 128)

\* A writeVarInt that leaves the continuation bit off.
RECURSIVE WriteVarIntNoContinuation(_)
WriteVarIntNoContinuation(value) ==
  IF value >= 0 /\ value < 128
  THEN <<value>>
  ELSE <<value % 128>> \o WriteVarIntNoContinuation(UnsignedShiftRight7(value))

\* writeVarInt(value): (value & ~0x7f) === 0 holds for 0..127 only.
RECURSIVE WriteVarInt(_)
WriteVarInt(value) ==
  IF value >= 0 /\ value < 128
  THEN <<value>>
  ELSE <<(value % 128) + ContinuationBit>>
         \o WriteVarInt(UnsignedShiftRight7(value))

\* (currentByte & 0x7f) << (length * 7), or-ed into value.  The shift count
\* is taken modulo 32 and bits shifted past bit 31 are lost; bit 31 is the
\* sign.  Up to the fifth byte the seven bits land on bits still zero in
\* value, so the or is a sum.
OrShifted(value, currentByte, length) ==
  LET bits == currentByte % 128
  IN IF length < 4
     THEN value + bits * Pow2(7 * length)
     ELSE IF length = 4
     THEN (IF (bits \div 8) % 2 = 1
           THEN (((bits % 8) * Pow2(28) + value) - 2147483647) - 1
           ELSE (bits % 8) * Pow2(28) + value)
     ELSE value

\* readVarInt(buffer, offset) from the state of its loop onwards: the value
\* and the length read, or the error thrown.
VarIntTooShort == [throws |-> TRUE, error |-> "VarInt too short", value |-> 0, length |-> 0]
VarIntTooLong == [throws |-> TRUE, error |-> "VarInt too long", value |-> 0, length |-> 0]
RECURSIVE ReadVarIntLoop(_, _, _, _)
ReadVarIntLoop(buffer, offset, value, length) ==
  IF offset + length >= Len(buffer)
  THEN VarIntTooShort
  ELSE LET currentByte == buffer[offset + length + 1]
           v == OrShifted(value, currentByte, length)
       IN IF length + 1 > MaxVarIntLength
          THEN VarIntTooLong
          ELSE IF currentByte >= ContinuationBit
          THEN ReadVarIntLoop(buffer, offset, v, length + 1)
          ELSE [throws |-> FALSE, error |-> "", value |-> v,
                length |-> length + 1]

ReadVarInt(buffer, offset) == ReadVarIntLoop(buffer, offset, 0, 0)

\* The integers written: every power of two below 2^31 with its
\* predecessor, the largest 31-bit integer, and a few numbers the ping
\* writes itself.
MaxPower == 29
MaxInt31 == (Pow2(30) - 1) + Pow2(30)
ProtocolVersion == 767
VarIntSamples ==
  {Pow2(k) : k \in 0..MaxPower} \cup {Pow2(k) - 1 : k \in 0..MaxPower}
    \cup {Pow2(30), Pow2(30) - 1, MaxInt31, MaxInt31 - 1, ProtocolVersion, 300, 25565, 16385,
          2097153, 268435457, 1234567890}

\* writeVarInt(n) read back with readVarInt(..., 0).
VarIntCall(n) ==
  [name |-> "varInt", n |-> n, done |-> FALSE, bytes |-> <<>>,
   out |-> VarIntTooShort]
VarIntReturn ==
  /\ fn.name = "varInt"
  /\ ~fn.done
  /\ fn' = [fn EXCEPT !.done = TRUE,
                      !.bytes = WriteVarInt(fn.n),
                      !.out = ReadVarInt(WriteVarInt(fn.n), 0)]
  /\ UNCHANGED distReq
  /\ UNCHANGED authVars
  /\ UNCHANGED connVars
  /\ UNCHANGED taskVars

\* ------------------------------------------------------------ MOTD
\* The characters /[0-9a-fk-or]/i accepts after a section sign.
SectionSign == "§"
FormatCodes ==
  {"0", "1", "2", "3", "4", "5", "6", "7", "8", "9",
   "a", "b", "c", "d", "e", "f", "k", "l", "m", "n", "o", "r",
   "A", "B", "C", "D", "E", "F", "K", "L", "M", "N", "O", "R"}
IsFormatPair(s, i) ==
  i + 1 <= Len(s) /\ s[i] = SectionSign /\ s[i + 1] \in FormatCodes

\* cleanMotd(raw): raw.replace(/§[0-9a-fk-or]/gi, ''), one scan from the
\* left that drops each match and goes on behind it.
RECURSIVE CleanMotd(_)
CleanMotd(raw) ==
  IF raw = <<>> THEN <<>>
  ELSE IF IsFormatPair(raw, 1) THEN CleanMotd(SubSeq(raw, 3, Len(raw)))
  ELSE <<raw[1]>> \o CleanMotd(Tail(raw))

\* The strings cleaned: up to MaxMotdLength characters out of a section
\* sign, a lower-case and an upper-case format code and a plain letter.
MaxMotdLength == 4
MotdChars == {SectionSign, "a", "R", "x"}
MotdStrings == UNION {[1..n -> MotdChars] : n \in 0..MaxMotdLength}

\* cleanMotd(raw) and cleanMotd of its result.
MotdCall(raw) ==
  [name |-> "cleanMotd", raw |-> raw, done |-> FALSE, out |-> <<>>,
   again |-> <<>>]
CleanMotdReturn ==
  /\ fn.name = "cleanMotd"
  /\ ~fn.done
  /\ fn' = [fn EXCEPT !.done = TRUE,
                      !.out = CleanMotd(fn.raw),
                      !.again = CleanMotd(CleanMotd(fn.raw))]
  /\ UNCHANGED distReq
  /\ UNCHANGED authVars
  /\ UNCHANGED connVars
  /\ UNCHANGED taskVars

\* ------------------------------------------------------------ Java ping
\* Statuses of the Java codec; error messages are character sequences.
ErrInvalidJson ==
  <<"I", "n", "v", "a", "l", "i", "d", " ", "J", "S", "O", "N", " ",
    "r", "e", "s", "p", "o", "n", "s", "e">>
ErrConnReset == <<"r", "e", "a", "d", " ", "E", "C", "O", "N", "N", "R", "E", "S", "E", "T">>
NoFavicon == "<undefined>"
JavaStatus(online, host, port, error, favicon) ==
  [online |-> online, host |-> host, port |-> port, error |-> error,
   favicon |-> favicon]
NoJavaStatus == JavaStatus(FALSE, <<>>, 0, NoError, NoFavicon)

\* The JSON texts of the responses, as bytes: {} , {"favicon":1} , 1 ,
\* null , }{ and the empty text.
JsonEmptyObject == <<123, 125>>
JsonFavicon == <<123, 34, 102, 97, 118, 105, 99, 111, 110, 34, 58, 49, 125>>
JsonOne == <<49>>
JsonNull == <<110, 117, 108, 108>>
JsonBroken == <<125, 123>>

\* JSON.parse(jsonString) followed by parseStatusResponse(data, host, port):
\* a syntax error and the property access on null both throw.
ParseStatusResponse(jsonString, host, port) ==
  IF jsonString = JsonFavicon
  THEN [throws |-> FALSE, status |-> JavaStatus(TRUE, host, port, NoError, "1")]
  ELSE IF jsonString \in {JsonEmptyObject, JsonOne}
  THEN [throws |-> FALSE,
        status |-> JavaStatus(TRUE, host, port, NoError, NoFavicon)]
  ELSE [throws |-> TRUE, status |-> NoJavaStatus]

\* buffer.subarray(start, end): a negative end counts from the end of the
\* buffer, and an end before the start gives no bytes.
Subarray(buffer, start, end) ==
  LET e == IF end < 0 THEN (IF Len(buffer) + end < 0 THEN 0 ELSE Len(buffer) + end)
           ELSE IF end > Len(buffer) THEN Len(buffer) ELSE end
  IN IF e <= start THEN <<>> ELSE SubSeq(buffer, start + 1, e)

\* parseResponse(buffer, host, port): throws (a VarInt is cut short or too
\* long), returns null (found is FALSE) or returns a status.
NeedMoreData == [throws |-> FALSE, found |-> FALSE, status |-> NoJavaStatus]
ParseThrows == [throws |-> TRUE, found |-> FALSE, status |-> NoJavaStatus]
\* A parseResponse that decodes whatever has arrived.
ParseResponseNoLengthCheck(buffer, host, port) ==
  LET packetLengthResult == ReadVarInt(buffer, 0)
      offset1 == packetLengthResult.length
      packetIdResult == ReadVarInt(buffer, offset1)
      offset2 == offset1 + packetIdResult.length
      jsonLengthResult == ReadVarInt(buffer, offset2)
      offset3 == offset2 + jsonLengthResult.length
      jsonLength == jsonLengthResult.value
      parsed == ParseStatusResponse(
                  Subarray(buffer, offset3, offset3 + jsonLength), host, port)
  IN IF packetLengthResult.throws THEN ParseThrows
     ELSE IF packetIdResult.throws THEN ParseThrows
     ELSE IF jsonLengthResult.throws THEN ParseThrows
     ELSE [throws |-> FALSE, found |-> TRUE,
           status |-> IF parsed.throws
                      THEN JavaStatus(FALSE, host, port, ErrInvalidJson, NoFavicon)
                      ELSE parsed.status]

ParseResponse(buffer, host, port) ==
  LET packetLengthResult == ReadVarInt(buffer, 0)
      offset1 == packetLengthResult.length
      packetLength == packetLengthResult.value
      packetIdResult == ReadVarInt(buffer, offset1)
      offset2 == offset1 + packetIdResult.length
      jsonLengthResult == ReadVarInt(buffer, offset2)
      offset3 == offset2 + jsonLengthResult.length
      jsonLength == jsonLengthResult.value
      parsed == ParseStatusResponse(
                  Subarray(buffer, offset3, offset3 + jsonLength), host, port)
  IN IF packetLengthResult.throws THEN ParseThrows
     ELSE IF Len(buffer) - offset1 < packetLength THEN NeedMoreData
     ELSE IF packetIdResult.throws THEN ParseThrows
     ELSE IF jsonLengthResult.throws THEN ParseThrows
     ELSE IF Len(buffer) - offset3 < jsonLength THEN NeedMoreData
     ELSE [throws |-> FALSE, found |-> TRUE,
           status |-> IF parsed.throws
                      THEN JavaStatus(FALSE, host, port, ErrInvalidJson, NoFavicon)
                      ELSE parsed.status]

\* One pingJavaServer call: the port, the bytes its peer is going to send,
\* how many of them have arrived and in how many data events, the socket,
\* the buffer, the resolved flag of cleanup, and the promise: its state, its
\* value, how often resolve was called and from which handler it was
\* settled.
JavaPingCall(port, stream) ==
  [name |-> "pingJavaServer", host |-> NameA, port |-> port,
   stream |-> stream, sent |-> 0, socket |-> "none", buffer |-> <<>>,
   resolved |-> FALSE, settled |-> "pending", result |-> NoJavaStatus,
   resolveCalls |-> 0, by |-> "none", events |-> 0]

\* cleanup() and resolve(status).
Cleanup(f) ==
  IF ~f.resolved THEN [f EXCEPT !.resolved = TRUE, !.socket = "destroyed"]
  ELSE f
Resolve(f, status, handler) ==
  [f EXCEPT !.resolveCalls = @ + 1,
            !.settled = IF @ = "pending" THEN "resolved" ELSE @,
            !.result = IF f.settled = "pending" THEN status ELSE @,
            !.by = IF f.settled = "pending" THEN handler ELSE @]

JavaPingUnchanged ==
  /\ UNCHANGED distReq
  /\ UNCHANGED authVars
  /\ UNCHANGED connVars
  /\ UNCHANGED taskVars

\* The promise executor: the socket is created, its idle timer set, the
\* handlers installed and socket.connect called, which throws on a port
\* outside 0..65535 and so rejects the promise.
PingJavaServerCall ==
  /\ fn.name = "pingJavaServer"
  /\ fn.socket = "none"
  /\ fn.settled = "pending"
  /\ fn' = IF fn.port \notin 0..65535
           THEN [fn EXCEPT !.socket = "unconnected", !.settled = "rejected"]
           ELSE [fn EXCEPT !.socket = "connecting"]
  /\ JavaPingUnchanged

\* The connect callback writes the handshake and the status request.
JavaConnected ==
  /\ fn.name = "pingJavaServer"
  /\ fn.socket = "connecting"
  /\ fn' = [fn EXCEPT !.socket = "open"]
  /\ JavaPingUnchanged

\* socket.on('data'): the next k bytes of the peer arrive in one event.
JavaData(k) ==
  /\ fn.name = "pingJavaServer"
  /\ fn.socket = "open"
  /\ fn.sent + k <= Len(fn.stream)
  /\ LET data == SubSeq(fn.stream, fn.sent + 1, fn.sent + k)
         buffer == fn.buffer \o data
         result == ParseResponse(buffer, fn.host, fn.port)
         f == [fn EXCEPT !.buffer = buffer, !.sent = @ + k,
                         !.events = @ + 1]
     IN fn' = IF ~result.throws /\ result.found
              THEN Resolve(Cleanup(f), result.status, "data")
              ELSE f
  /\ JavaPingUnchanged

\* socket.on('timeout'): the idle timer of a socket that is not destroyed.
JavaTimeout ==
  /\ fn.name = "pingJavaServer"
  /\ fn.socket \in {"unconnected", "connecting", "open"}
  /\ fn' = Resolve(Cleanup(fn),
                   JavaStatus(FALSE, fn.host, fn.port, ErrTimeout, NoFavicon),
                   "timeout")
  /\ JavaPingUnchanged

\* socket.on('error'): the connection is refused or reset.
JavaError ==
  /\ fn.name = "pingJavaServer"
  /\ fn.socket \in {"connecting", "open"}
  /\ fn' = Resolve(Cleanup(fn),
                   JavaStatus(FALSE, fn.host, fn.port, ErrConnReset, NoFavicon),
                   "error")
  /\ JavaPingUnchanged

\* The peer closes the connection in order: the socket emits 'end' and
\* 'close', for which no handler is installed, and destroys itself, which
\* clears its idle timer.
JavaPeerEnd ==
  /\ fn.name = "pingJavaServer"
  /\ fn.socket = "open"
  /\ fn' = [fn EXCEPT !.socket = "destroyed"]
  /\ JavaPingUnchanged

\* The response frame around a JSON text: packet length, packet id 0, the
\* length of the text, the text.
StatusFrame(json) ==
  LET body == WriteVarInt(0) \o WriteVarInt(Len(json)) \o json
  IN WriteVarInt(Len(body)) \o body
\* The same frame with its packet length written in two bytes.
WideStatusFrame(json) ==
  LET body == WriteVarInt(0) \o WriteVarInt(Len(json)) \o json
  IN <<Len(body) + ContinuationBit, 0>> \o body
JsonTexts == {JsonEmptyObject, JsonFavicon, JsonOne, JsonNull, JsonBroken, <<>>}
FrameStreams ==
  {StatusFrame(j) : j \in JsonTexts}
    \cup {WideStatusFrame(JsonEmptyObject)}
    \cup {StatusFrame(JsonEmptyObject) \o <<1, 0>>}
\* A peer that sends nothing, one that stops inside a frame, and one that
\* sends bytes no frame starts with.
JunkStream == <<128, 128, 128, 128, 128, 128, 1>>
PeerStreams ==
  FrameStreams \cup {<<>>, SubSeq(StatusFrame(JsonFavicon), 1, 6), JunkStream}
PingPorts == {DefaultPort, 70000}
MaxChunk == 16

\* ------------------------------------------------------------ withTimeout
\* A settled promise: fulfilled with a value or rejected.
Fulfilled(value) == [state |-> "fulfilled", value |-> value]
RejectedPromise == [state |-> "rejected", value |-> <<>>]
PendingPromise == [state |-> "pending", value |-> <<>>]

\* A wrapper that hands the lookup's outcome to the race as it is.
CatchNothing(outcome, fallback) == outcome

\* promise.catch(() => fallback)
CatchFallback(outcome, fallback) ==
  IF outcome.state = "rejected" THEN Fulfilled(fallback) ELSE outcome

\* Promise.race: the first outcome handed in settles it, later ones are
\* ignored.
Race(race, outcome) == IF race.state = "pending" THEN outcome ELSE race

\* One withTimeout(promise, DNS_TIMEOUT, fallback) call: the answer the
\* lookup would give, the lookup promise, the timer, the race, how many
\* outcomes were handed to the race and which event came first.
WithTimeoutCall(query, answer, fallback) ==
  [name |-> "withTimeout", query |-> query, answer |-> answer,
   fallback |-> fallback, lookup |-> "pending", timer |-> "armed",
   race |-> PendingPromise, handed |-> 0, first |-> "none"]

WithTimeoutUnchanged ==
  /\ UNCHANGED distReq
  /\ UNCHANGED authVars
  /\ UNCHANGED connVars
  /\ UNCHANGED taskVars

\* The resolver answers: the lookup promise is fulfilled.
LookupAnswers ==
  /\ fn.name = "withTimeout"
  /\ fn.lookup = "pending"
  /\ fn' = [fn EXCEPT
              !.lookup = "fulfilled",
              !.race = Race(@, CatchFallback(Fulfilled(fn.answer), fn.fallback)),
              !.handed = @ + 1,
              !.first = IF @ = "none" THEN "answer" ELSE @]
  /\ WithTimeoutUnchanged

\* The resolver reports an error (ENOTFOUND, ENODATA, ...): the lookup
\* promise is rejected.
LookupFails ==
  /\ fn.name = "withTimeout"
  /\ fn.lookup = "pending"
  /\ fn' = [fn EXCEPT
              !.lookup = "rejected",
              !.race = Race(@, CatchFallback(RejectedPromise, fn.fallback)),
              !.handed = @ + 1,
              !.first = IF @ = "none" THEN "error" ELSE @]
  /\ WithTimeoutUnchanged

\* setTimeout(() => resolve(fallback), ms) fires; nothing cancels it.
DnsTimerFires ==
  /\ fn.name = "withTimeout"
  /\ fn.timer = "armed"
  /\ fn' = [fn EXCEPT
              !.timer = "fired",
              !.race = Race(@, Fulfilled(fn.fallback)),
              !.handed = @ + 1,
              !.first = IF @ = "none" THEN "timer" ELSE @]
  /\ WithTimeoutUnchanged

\* The lookups wrapped and the answers the resolver can give them; the
\* fallback of every call in dns.ts is the empty list.
DnsQueries == {"resolveSrv", "resolve4", "resolve6", "resolveCname"}
DnsAnswers ==
  {<<>>, <<Addr4>>, <<Addr4, Addr4b>>, <<Addr6>>, <<NameB>>, <<NameB, NameC>>}
DnsFallbacks == {<<>>}

\* ------------------------------------------------------------ Bedrock ping
MaxRetries == 0
PongPacketId == 28
MinPongLength == 35
PongHeaderLength == 35

ErrInvalidPong ==
  <<"I", "n", "v", "a", "l", "i", "d", " ", "p", "o", "n", "g", " ", "r",
    "e", "s", "p", "o", "n", "s", "e">>
ErrTruncated ==
  <<"T", "r", "u", "n", "c", "a", "t", "e", "d", " ", "r", "e", "s", "p",
    "o", "n", "s", "e">>
ErrInfoFormat ==
  <<"I", "n", "v", "a", "l", "i", "d", " ", "s", "e", "r", "v", "e", "r",
    " ", "i", "n", "f", "o", " ", "f", "o", "r", "m", "a", "t">>
ErrConnRefused ==
  <<"s", "e", "n", "d", " ", "E", "C", "O", "N", "N", "R", "E", "F", "U",
    "S", "E", "D">>
ConnReset == <<"E", "C", "O", "N", "N", "R", "E", "S", "E", "T">>
NoStatus == ServerStatus(FALSE, <<>>, 0, NoError)

\* error.includes(text)
IncludesText(s, text) ==
  \E i \in 1..(Len(s) - Len(text) + 1) :
     SubSeq(s, i, i + Len(text) - 1) = text

\* A datagram as parseUnconnectedPong reads it: its length, its first byte,
\* the string length at offset 33 and the number of ';'-separated parts of
\* the server info.
Datagram(length, id, stringLength, parts) ==
  [length |-> length, id |-> id, stringLength |-> stringLength,
   parts |-> parts]

\* parseUnconnectedPong and parseServerInfo.
ParseUnconnectedPong(msg, host, port) ==
  IF msg.length < MinPongLength \/ msg.id # PongPacketId
  THEN ServerStatus(FALSE, host, port, ErrInvalidPong)
  ELSE IF msg.length < PongHeaderLength + msg.stringLength
  THEN ServerStatus(FALSE, host, port, ErrTruncated)
  ELSE IF msg.parts < 6
  THEN ServerStatus(FALSE, host, port, ErrInfoFormat)
  ELSE ServerStatus(TRUE, host, port, NoError)

\* One pingBedrockServer call: the attempt of the loop, the socket and the
\* timer of the attempt, the sockets created, the datagrams sent, the
\* socket.close and resolve calls made, and the promise returned.
BedrockPingCall(port, msg, err) ==
  [name |-> "pingBedrockServer", host |-> NameA, port |-> port,
   msg |-> msg, err |-> err, attempt |-> 0, socket |-> "none",
   timer |-> "none", resolved |-> FALSE, sockets |-> 0, sent |-> 0,
   closes |-> 0, resolveCalls |-> 0, once |-> "pending",
   settled |-> "pending", result |-> NoStatus, by |-> "none"]

\* cleanup()
BedrockCleanup(f) ==
  IF ~f.resolved
  THEN [f EXCEPT !.resolved = TRUE, !.socket = "closed", !.closes = @ + 1]
  ELSE f

\* Whether the loop of pingBedrockServer goes round again after an attempt
\* that gave this status.
Retry(f, status) ==
  ~status.online
  /\ (status.error = ErrTimeout \/ IncludesText(status.error, ConnReset))
  /\ f.attempt + 1 <= MaxRetries

\* resolve(status) of an attempt, and the loop that awaits it: it returns
\* the status or starts the next attempt.
BedrockResolve(f, status, handler) ==
  LET g == [f EXCEPT !.resolveCalls = @ + 1] IN
  IF f.once # "pending" THEN g
  ELSE IF Retry(f, status)
  THEN [g EXCEPT !.attempt = @ + 1, !.socket = "none", !.timer = "none",
                 !.resolved = FALSE]
  ELSE [g EXCEPT !.once = "resolved", !.settled = "resolved",
                 !.result = status, !.by = handler]

BedrockUnchanged ==
  /\ UNCHANGED distReq
  /\ UNCHANGED authVars
  /\ UNCHANGED connVars
  /\ UNCHANGED taskVars

\* The promise executor of pingBedrockServerOnce: the socket is created,
\* the timer set, the handlers installed and socket.connect called, which
\* throws on a port outside 1..65535 and so rejects the promise, and with
\* it the pingBedrockServer call that awaits it.
PingBedrockServerOnce ==
  /\ fn.name = "pingBedrockServer"
  /\ fn.socket = "none"
  /\ fn.settled = "pending"
  /\ fn' = IF fn.port \notin 1..65535
           THEN [fn EXCEPT !.socket = "unbound", !.timer = "armed",
                           !.sockets = @ + 1, !.once = "rejected",
                           !.settled = "rejected"]
           ELSE [fn EXCEPT !.socket = "connecting", !.timer = "armed",
                           !.sockets = @ + 1]
  /\ BedrockUnchanged

\* The connect callback sends the UNCONNECTED_PING datagram.
BedrockConnected ==
  /\ fn.name = "pingBedrockServer"
  /\ fn.socket = "connecting"
  /\ fn' = [fn EXCEPT !.socket = "connected", !.sent = @ + 1]
  /\ BedrockUnchanged

\* socket.on('message'): a datagram of the peer arrives.
BedrockMessage ==
  /\ fn.name = "pingBedrockServer"
  /\ fn.socket = "connected"
  /\ fn' = BedrockResolve(
             BedrockCleanup([fn EXCEPT !.timer = "cleared"]),
             ParseUnconnectedPong(fn.msg, fn.host, fn.port), "message")
  /\ BedrockUnchanged

\* socket.on('error'): the lookup of the host fails, or the peer's port is
\* unreachable.
BedrockError ==
  /\ fn.name = "pingBedrockServer"
  /\ fn.socket \in {"connecting", "connected"}
  /\ fn' = BedrockResolve(
             BedrockCleanup([fn EXCEPT !.timer = "cleared"]),
             ServerStatus(FALSE, fn.host, fn.port, fn.err), "error")
  /\ BedrockUnchanged

\* The timer of the attempt fires.
BedrockTimeout ==
  /\ fn.name = "pingBedrockServer"
  /\ fn.timer = "armed"
  /\ fn' = BedrockResolve(
             BedrockCleanup([fn EXCEPT !.timer = "fired"]),
             ServerStatus(FALSE, fn.host, fn.port, ErrTimeout), "timeout")
  /\ BedrockUnchanged

\* The ports called, the datagrams a peer answers with and the messages of
\* the socket errors.
BedrockPorts == {BedrockPort, DefaultPort, 0, 70000}
PeerDatagrams ==
  {Datagram(10, PongPacketId, 0, 1), Datagram(40, 1, 3, 6),
   Datagram(40, PongPacketId, 20, 6), Datagram(40, PongPacketId, 5, 1),
   Datagram(100, PongPacketId, 60, 9)}
SocketErrors == {ErrConnRefused, ErrConnReset}

\* No service function is being called; no distributed request was made.
NoCall == [name |-> "none"]
NoRequest == [phase |-> "idle"]

\* --------------------------------------------------- distributed route
ErrMissingType == "Missing required parameter: type (java or bedrock)"
ErrNoProbes == "No probe nodes available"

\* The checks in the order "probes, then type".
RefusalProbesFirst(type, reg) ==
  IF DOMAIN reg = {} THEN 503
  ELSE IF Falsy(type) THEN 400
  ELSE 0
\* The status code of the refusal, or 0 when the request is dispatched:
\* if (!type) 400; if (probes.length === 0) 503.
Refusal(type, reg) ==
  IF Falsy(type) THEN 400
  ELSE IF DOMAIN reg = {} THEN 503
  ELSE 0

\* The controller-side DNS work of the route for the answers of zone.
NoDnsResult == [ip |-> <<>>, srvRecord |-> NoSrv, dnsRecords |-> <<>>]
DistributedDnsResult(zone, host, type) ==
  LET isIpAddress == IsIpLiteral(host)
      srvRecord == IF type = "java" /\ ~isIpAddress
                   THEN ResolveSrvRecord(zone, host) ELSE NoSrv
      srvHost == IF srvRecord # NoSrv THEN srvRecord.target ELSE host
  IN IF InvalidHostname(host) THEN NoDnsResult
     ELSE [ip |-> IF isIpAddress THEN host ELSE ResolveIp(zone, srvHost),
           srvRecord |-> srvRecord,
           dnsRecords |-> IF isIpAddress THEN <<>>
                          ELSE CollectDnsRecords(zone, host, srvRecord)]
\* The route sends DNS queries for names that pass the hostname test.
AsksDns(host) == ~IsIpLiteral(host) /\ ~InvalidHostname(host)

\* The data field of a PingResult: a probe puts the status it measured, with
\* the ip_info of its own resolver, into the replies that report success.
ProbeIpInfo == IpInfo(Addr6, NoSrv, <<>>)
ResultData(result, host, port, type) ==
  IF result.success
  THEN [present |-> TRUE,
        status |-> [ServerStatus(TRUE, host, port, "") EXCEPT
                      !.ip_info = ProbeIpInfo, !.type = type]]
  ELSE [present |-> FALSE, status |-> ServerStatus(FALSE, <<>>, 0, "")]

\* baseIpInfo of the route.
BaseIpInfo(dnsResult) ==
  IF dnsResult.ip # <<>>
  THEN IpInfo(dnsResult.ip, dnsResult.srvRecord, dnsResult.dnsRecords)
  ELSE NoIpInfo

\* An attachment that keeps the ip_info a status already has.
AttachIpInfoIfMissing(status, baseIpInfo) ==
  IF baseIpInfo.present /\ ~status.ip_info.present
  THEN [status EXCEPT !.ip_info = baseIpInfo] ELSE status
\* if (baseIpInfo) status.ip_info = { ...baseIpInfo }
AttachIpInfo(status, baseIpInfo) ==
  IF baseIpInfo.present THEN [status EXCEPT !.ip_info = baseIpInfo]
  ELSE status

\* A merge over the probes whose task succeeded.
MergedIdsSucceeded(results) == {id \in DOMAIN results : results[id].success}
\* for (const [probeId, result] of results)
MergedIds(results) == DOMAIN results

\* probe?.region || 'Unknown', with the registry as it is at the merge.
NodeRegion(reg, probeId) ==
  IF MapHas(reg, probeId) THEN reg[probeId].region ELSE "Unknown"

\* The node of one entry of the broadcast result.
NodeResult(req, reg, probeId, result) ==
  LET data == ResultData(result, req.host, req.targetPort, req.type)
      status == IF data.present THEN data.status
                ELSE ServerStatus(FALSE, req.host, req.port, result.error)
  IN [node_region |-> NodeRegion(reg, probeId),
      status |-> [AttachIpInfo(status, BaseIpInfo(req.dnsResult)) EXCEPT
                    !.type = req.type]]

\* A route that, like the direct one, answers a hostname that fails the
\* test without doing anything for it.
DispatchesUnlessInvalid(code, host) == code = 0 /\ ~InvalidHostname(host)

\* Whether the handler reaches broadcastTask: it is the second element of
\* the Promise.all, called whatever the DNS closure before it does.
Dispatches(code, host) == code = 0

\* GET /v1/distributed/:server arrives: the refusals, or parseAddress,
\* targetPort, the start of the DNS work and broadcastTask, all in the tick
\* of the handler.
DistributedRequest(w, type) ==
  /\ distReq.phase = "idle"
  /\ LET server == FormatAddress(w.host, w.port, w.brackets)
         parsed == ParseAddress(server)
         code == Refusal(type, probes)
         req == [phase |-> IF code = 0 THEN "open" ELSE "done",
                 written |-> w, server |-> server, type |-> type,
                 code |-> code,
                 error |-> IF code = 400 THEN ErrMissingType
                           ELSE IF code = 503 THEN ErrNoProbes ELSE "",
                 host |-> parsed.host, port |-> parsed.port,
                 targetPort |-> SubstitutePort(type, parsed.port),
                 dnsAsked |-> code = 0 /\ AsksDns(parsed.host),
                 dns |-> IF code = 0 /\ AsksDns(parsed.host)
                         THEN "pending" ELSE "done",
                 dnsResult |-> IF IsIpLiteral(parsed.host)
                               THEN [NoDnsResult EXCEPT !.ip = parsed.host]
                               ELSE NoDnsResult,
                 result_count |-> 0, nodes |-> EmptyMap]
     IN /\ distReq' = req
        /\ IF Dispatches(code, parsed.host)
           THEN BroadcastTask
           ELSE /\ UNCHANGED taskVars
                /\ UNCHANGED authVars
                /\ UNCHANGED connVars
                /\ UNCHANGED fn

\* The DNS work of the request comes to its end, with the answers of zone.
DistributedDns(zone) ==
  /\ distReq.phase = "open"
  /\ distReq.dns = "pending"
  /\ distReq' = [distReq EXCEPT
                   !.dns = "done",
                   !.dnsResult = DistributedDnsResult(zone, distReq.host,
                                                      distReq.type)]
  /\ UNCHANGED fn
  /\ UNCHANGED authVars
  /\ UNCHANGED connVars
  /\ UNCHANGED taskVars

\* Both promises of the handler's Promise.all have settled: its continuation
\* runs before any other event.
MergeDue ==
  /\ distReq.phase = "open"
  /\ distReq.dns = "done"
  /\ bcast.status = "returned"

\* The merge loop and the response.
DistributedRespond ==
  /\ MergeDue
  /\ distReq' = [distReq EXCEPT
                   !.phase = "done",
                   !.code = 200,
                   !.result_count = Cardinality(DOMAIN bcast.results),
                   !.nodes = [id \in MergedIds(bcast.results) |->
                                NodeResult(distReq, probes, id,
                                           bcast.results[id])]]
  /\ UNCHANGED fn
  /\ UNCHANGED authVars
  /\ UNCHANGED connVars
  /\ UNCHANGED taskVars

\* The requests: a name, for Java, for Bedrock and without a type; a name
\* that is too short; a literal.
DistributedRequests ==
  {[written |-> [host |-> NameA, port |-> 0, brackets |-> FALSE],
    type |-> "java"],
   [written |-> [host |-> NameA, port |-> 0, brackets |-> FALSE],
    type |-> "bedrock"],
   [written |-> [host |-> NameA, port |-> 0, brackets |-> FALSE],
    type |-> NullParam],
   [written |-> [host |-> ShortName, port |-> 25570, brackets |-> FALSE],
    type |-> "java"],
   [written |-> [host |-> Addr4, port |-> 0, brackets |-> FALSE],
    type |-> "bedrock"]}
DistributedZones ==
  {Zone(NoAnswers, NoAnswers),
   Zone(Answer(<<>>, <<Addr4>>, <<>>, SrvAnswer(NameB)),
        Answer(<<>>, <<Addr4b>>, <<>>, <<>>))}

\* ------------------------------------------------------------ behaviour
\* Module load ran loadProbeSecrets() and watchProbeSecrets() on the file
\* found at startup.
InitCore ==
  /\ fileDirty = FALSE
  /\ watching = WatchInstalled(fileContent)
  /\ probeSecrets = LoadProbeSecrets(EmptyMap, fileContent)
  /\ probes = EmptyMap
  /\ sock = [c \in Conns |-> "fresh"]
  /\ connId = [c \in Conns |-> NullParam]
  /\ hooked = [c \in Conns |-> FALSE]
  /\ closeCode = [c \in Conns |-> 0]
  /\ lastReg = [i \in ProbeIds |-> 0]
  /\ displaced = [c \in Conns |-> 0]
  /\ calls = <<>>
  /\ pendingTasks = {}
  /\ timers = {}
  /\ dropped = {}
  /\ bcast = NoBroadcast
InitRest ==
  /\ InitCore
  /\ fn = NoCall
  /\ distReq = NoRequest

\* The dispatcher with the probes of ConfigB: connections, tasks, replies
\* and timers in every interleaving.
Init ==
  /\ fileContent = ConfigB
  /\ InitRest

\* What a probe that holds its secret of ConfigB sends, and the region it
\* announces on its c-th connection.
ProbeHeader(id) ==
  Header(BearerPrefix \o (IF id = "alpha" THEN SecretQ ELSE SecretK))
ConnRegion(c) == IF c % 2 = 1 THEN "us" ELSE "eu"

Next ==
  \/ \E c \in Conns, id \in ProbeIds :
        Connect(c, id, ConnRegion(c), ProbeHeader(id))
  \/ \E c \in Conns : PeerClose(c)
  \/ \E c \in Conns : CloseEvent(c)
  \/ \E c \in Conns : ErrorEvent(c)
  \/ \E id \in ProbeIds : SendTask(id)
  \/ BroadcastTask /\ UNCHANGED distReq
  \/ \E c \in Conns, m \in Frames : HandleMessage(c, m) /\ UNCHANGED dropped
  \/ \E t \in CallIds : TimeoutFire(t)

Spec == Init /\ [][Next]_vars

\* The dispatcher under direct sendTask calls, with a log of the frames that
\* handleMessage ignored: reading the frame's id threw ("invalid"), nobody
\* minted the id or the frame has none ("unknown"), or its task was already
\* answered or timed out ("stale").
DropKind(m) ==
  IF ReadingIdThrows(m) THEN "invalid"
  ELSE IF m.id = 0 \/ calls[m.id].taskId = 0 THEN "unknown" ELSE "stale"
LogDrop(m) ==
  dropped' = IF m.id \in pendingTasks THEN dropped
             ELSE dropped \cup {DropKind(m)}

NextFrames ==
  \/ \E c \in Conns, id \in ProbeIds :
        Connect(c, id, ConnRegion(c), ProbeHeader(id))
  \/ \E c \in Conns : PeerClose(c)
  \/ \E c \in Conns : CloseEvent(c)
  \/ \E c \in Conns : ErrorEvent(c)
  \/ \E id \in ProbeIds : SendTask(id)
  \/ \E c \in Conns, m \in Frames : HandleMessage(c, m) /\ LogDrop(m)
  \/ \E t \in CallIds : TimeoutFire(t)

FrameSpec == Init /\ [][NextFrames]_vars

\* The same with malformed frames among the frames the probes send.
NextTexts ==
  \/ \E c \in Conns, id \in ProbeIds :
        Connect(c, id, ConnRegion(c), ProbeHeader(id))
  \/ \E c \in Conns : PeerClose(c)
  \/ \E c \in Conns : CloseEvent(c)
  \/ \E c \in Conns : ErrorEvent(c)
  \/ \E id \in ProbeIds : SendTask(id)
  \/ \E c \in Conns, m \in Frames \cup MalformedFrames :
        HandleMessage(c, m) /\ LogDrop(m)
  \/ \E t \in CallIds : TimeoutFire(t)
TextSpec == Init /\ [][NextTexts]_vars

\* Timers expire: an armed timeout eventually runs its callback.
FairSpec == Spec /\ WF_vars(\E t \in CallIds : TimeoutFire(t))

\* The session manager with every credentials file and every connection
\* request, and the file watcher.
InitAuth ==
  /\ fileContent \in FileContents
  /\ InitRest

NextAuth ==
  \/ \E f \in FileContents : FileChange(f)
  \/ WatchPoll
  \/ \E c \in Conns, id \in IdParams, region \in RegionParams,
        auth \in Headers : Connect(c, id, region, auth)
  \/ \E c \in Conns : PeerClose(c)
  \/ \E c \in Conns : CloseEvent(c)
  \/ \E c \in Conns : ErrorEvent(c)

AuthSpec == InitAuth /\ [][NextAuth]_vars

\* The file watcher polls: a pending change is eventually noticed.
FairAuthSpec == AuthSpec /\ WF_vars(WatchPoll)

\* The controller at rest while one service function call is followed: no
\* probe connects and no request is dispatched.
InitQuiet ==
  /\ fileContent = ConfigB
  /\ InitCore
  /\ distReq = NoRequest

\* parseAddress applied to each written address.
InitAddr ==
  /\ InitQuiet
  /\ \E w \in WrittenAddresses : fn = ParseCall(w)
NextAddr ==
  \/ ParseAddressReturn
AddrSpec == InitAddr /\ [][NextAddr]_vars

\* collectDnsRecords on every zone, for a name or a literal, with and
\* without an SRV record; the resolver answers every query (withTimeout).
InitDns ==
  /\ InitQuiet
  /\ \E zone \in Zones, host \in CollectHosts, srvRecord \in SrvArguments :
        fn = CollectCall(zone, host, srvRecord)
NextDns ==
  \/ CollectDnsStep
DnsSpec == InitDns /\ [][NextDns]_vars
FairDnsSpec == DnsSpec /\ WF_vars(CollectDnsStep)

\* The same on zones in which a.io has two aliases, b.io before c.io, and
\* addresses of its own.
TwoAliasZones ==
  {[n \in ZoneNames |->
      IF n = NameA
      THEN [cname |-> <<NameB, NameC>>, a |-> <<Addr4>>, aaaa |-> <<Addr6>>,
            srv |-> <<>>]
      ELSE IF n = NameB THEN b ELSE c] : b \in Answers, c \in Answers}
InitAlias ==
  /\ InitQuiet
  /\ \E zone \in Zones \cup TwoAliasZones, host \in CollectHosts,
        srvRecord \in SrvArguments :
        fn = CollectCall(zone, host, srvRecord)
NextAlias ==
  \/ CollectDnsStep
AliasSpec == InitAlias /\ [][NextAlias]_vars

\* getServerStatus on every request address, for both protocols, in every
\* orchestrator zone, with a server that answers the ping or does not.
InitStatus ==
  /\ InitQuiet
  /\ \E w \in RequestAddresses, type \in Protocols,
        zone \in OrchestratorZones, pong \in PingOutcomes :
        fn = StatusCall(w, type, zone, pong)
NextStatus ==
  \/ GetServerStatusReturn
StatusSpec == InitStatus /\ [][NextStatus]_vars

\* The same with addresses whose port no socket accepts, for which the ping
\* throws and the orchestrator builds the status in its catch block.
EchoAddresses ==
  RequestAddresses
    \cup {[host |-> h, port |-> 70000, brackets |-> FALSE] : h \in {NameA, Addr4}}
InitEcho ==
  /\ InitQuiet
  /\ \E w \in EchoAddresses, type \in Protocols,
        zone \in OrchestratorZones, pong \in PingOutcomes :
        fn = StatusCall(w, type, zone, pong)
NextEcho ==
  \/ GetServerStatusReturn
EchoSpec == InitEcho /\ [][NextEcho]_vars

\* getServerStatus on hosts on either side of the hostname test: names of
\* three, four, nine and ten characters with and without a dot, and literals
\* of three and of seven characters.
TinyName == <<"a", ".", "b">>
NineName == <<"l", "o", "c", "a", "l", "h", "o", "s", "t">>
TenName == <<"l", "o", "c", "a", "l", "h", "o", "s", "t", "1">>
DottedName == <<"m", "c", ".", "l", "a", "n">>
TestedAddresses ==
  {[host |-> h, port |-> p, brackets |-> FALSE] :
      h \in {NameA, ShortName, TinyName, NineName, TenName, DottedName, Addr4},
      p \in {0, 25570}}
    \cup {[host |-> Addr6, port |-> p, brackets |-> TRUE] : p \in {0, 25570}}
InitTested ==
  /\ InitQuiet
  /\ \E w \in TestedAddresses, type \in Protocols,
        zone \in OrchestratorZones, pong \in PingOutcomes :
        fn = StatusCall(w, type, zone, pong)
NextTested ==
  \/ GetServerStatusReturn
TestedSpec == InitTested /\ [][NextTested]_vars

\* The distributed route over the dispatcher: probes connect, disconnect and
\* reconnect while one request is in flight.
NextDist ==
  \/ /\ ~MergeDue
     /\ \E c \in Conns, id \in ProbeIds :
          Connect(c, id, ConnRegion(c), ProbeHeader(id))
  \/ ~MergeDue /\ \E c \in Conns : PeerClose(c)
  \/ ~MergeDue /\ \E c \in Conns : CloseEvent(c)
  \/ ~MergeDue /\ \E c \in Conns : ErrorEvent(c)
  \/ \E r \in DistributedRequests : DistributedRequest(r.written, r.type)
  \/ \E zone \in DistributedZones : DistributedDns(zone)
  \/ /\ ~MergeDue
     /\ \E c \in Conns, m \in Frames : HandleMessage(c, m) /\ UNCHANGED dropped
  \/ ~MergeDue /\ \E t \in CallIds : TimeoutFire(t)
  \/ DistributedRespond
DistSpec == Init /\ [][NextDist]_vars


\* writeVarInt applied to each sample integer and read back.
InitVarInt ==
  /\ InitQuiet
  /\ \E n \in VarIntSamples : fn = VarIntCall(n)
NextVarInt ==
  \/ VarIntReturn
VarIntSpec == InitVarInt /\ [][NextVarInt]_vars

\* cleanMotd applied to each sample string.
InitMotd ==
  /\ InitQuiet
  /\ \E raw \in MotdStrings : fn = MotdCall(raw)
NextMotd ==
  \/ CleanMotdReturn
MotdSpec == InitMotd /\ [][NextMotd]_vars

\* pingJavaServer against every peer: the peer's bytes arrive in events of
\* any sizes, the connection is refused, reset or closed at any moment, and
\* the idle timer fires when it is not cancelled.
InitJavaPing ==
  /\ InitQuiet
  /\ \E port \in PingPorts, stream \in PeerStreams :
        fn = JavaPingCall(port, stream)
NextJavaPing ==
  \/ PingJavaServerCall
  \/ JavaConnected
  \/ \E k \in 1..MaxChunk : JavaData(k)
  \/ JavaTimeout
  \/ JavaError
  \/ JavaPeerEnd
JavaPingSpec == InitJavaPing /\ [][NextJavaPing]_vars
FairJavaPingSpec ==
  JavaPingSpec /\ WF_vars(PingJavaServerCall) /\ WF_vars(JavaTimeout)

\* One wrapped lookup: the resolver answers, fails or stays silent, before
\* or after the timer.
InitWithTimeout ==
  /\ InitQuiet
  /\ \E query \in DnsQueries, answer \in DnsAnswers, fallback \in DnsFallbacks :
        fn = WithTimeoutCall(query, answer, fallback)
NextWithTimeout ==
  \/ LookupAnswers
  \/ LookupFails
  \/ DnsTimerFires
WithTimeoutSpec == InitWithTimeout /\ [][NextWithTimeout]_vars
FairWithTimeoutSpec == WithTimeoutSpec /\ WF_vars(DnsTimerFires)

\* One Bedrock ping: the peer answers with a datagram, the socket reports
\* an error or neither happens before the timer fires.
InitBedrock ==
  /\ InitQuiet
  /\ \E port \in BedrockPorts, msg \in PeerDatagrams, err \in SocketErrors :
        fn = BedrockPingCall(port, msg, err)
NextBedrock ==
  \/ PingBedrockServerOnce
  \/ BedrockConnected
  \/ BedrockMessage
  \/ BedrockError
  \/ BedrockTimeout
BedrockSpec == InitBedrock /\ [][NextBedrock]_vars
FairBedrockSpec ==
  BedrockSpec /\ WF_vars(PingBedrockServerOnce) /\ WF_vars(BedrockTimeout)

\* parseAddress applied to a host followed by ':' and any text: nothing, no
\* number, a number with a tail, a sign, numbers at and past the ends of
\* the port range.
PortTexts ==
  {<<>>, <<"a", "b", "c">>, <<"2", "5", "x">>, <<" ", "8", "0">>, <<"0">>,
   <<"6", "5", "5", "3", "5">>, <<"6", "5", "5", "3", "6">>,
   <<"7", "0", "0", "0", "0">>, <<"-", "5">>}
TextAddresses ==
  {[host |-> h, brackets |-> FALSE, text |-> t] :
      h \in HostNames \cup IPv4Hosts, t \in PortTexts}
    \cup {[host |-> h, brackets |-> TRUE, text |-> t] :
            h \in IPv6Hosts, t \in PortTexts}
ParseTextCall(w) ==
  [name |-> "parseAddress", written |-> w,
   address |-> (IF w.brackets THEN <<"[">> \o w.host \o <<"]">> ELSE w.host)
                 \o <<":">> \o w.text,
   done |-> FALSE, out |-> [host |-> <<>>, port |-> 0]]
InitPortText ==
  /\ InitQuiet
  /\ \E w \in TextAddresses : fn = ParseTextCall(w)
NextPortText ==
  \/ ParseAddressReturn
PortTextSpec == InitPortText /\ [][NextPortText]_vars

\* The dispatcher while the credentials file is rewritten and reloaded: the
\* probes keep presenting their secrets of ConfigB.
NextReload ==
  \/ \E f \in ValidFiles : FileChange(f)
  \/ WatchPoll
  \/ \E c \in Conns, id \in ProbeIds :
        Connect(c, id, ConnRegion(c), ProbeHeader(id))
  \/ \E c \in Conns : PeerClose(c)
  \/ \E c \in Conns : CloseEvent(c)
  \/ \E c \in Conns : ErrorEvent(c)
  \/ \E id \in ProbeIds : SendTask(id)
  \/ BroadcastTask /\ UNCHANGED distReq
  \/ \E c \in Conns, m \in Frames : HandleMessage(c, m) /\ UNCHANGED dropped
  \/ \E t \in CallIds : TimeoutFire(t)
ReloadSpec == Init /\ [][NextReload]_vars
\* ------------------------------------------------------------ properties
IsReply(r) == r.error \in {"", "ping failed"}

\* C1 (task correlation): every sendTask call that minted a task id is
\* resolved at most once and never rejected; while it is unresolved its
\* waiter is in the map and its timer is armed, so it will be resolved; once
\* resolved, its value is either a probe reply carrying exactly its own task
\* id or the synthesized timeout result for its own task id, and its waiter
\* and timer are gone.
TaskCorrelation ==
  \A k \in 1..Len(calls) :
    calls[k].taskId # 0 =>
      /\ calls[k].taskId = k
      /\ calls[k].nres <= 1
      /\ calls[k].value # Rejected
      /\ IF calls[k].nres = 0
         THEN calls[k].value = NoResult /\ k \in pendingTasks /\ k \in timers
         ELSE /\ calls[k].value.id = k
              /\ \/ calls[k].value = TaskTimeout(k)
                 \/ IsReply(calls[k].value)
              /\ k \notin pendingTasks
              /\ k \notin timers

\* Two tasks in flight, the later one answered by its reply and the earlier
\* one resolved by its timeout.
TaskCorrelationWitness ==
  /\ Len(calls) = 2
  /\ calls[1].value = TaskTimeout(1)
  /\ calls[2].value = Result(2, TRUE, "")
  /\ calls[1].nres = 1
  /\ calls[2].nres = 1

\* C2 (registry uniqueness): every session in the registry is filed under
\* the id its connection announced, no connection is filed under two ids,
\* and the session filed under an id is the one registered last for that id.
RegistryUniqueness ==
  /\ \A id \in DOMAIN probes :
       /\ probes[id].conn = lastReg[id]
       /\ connId[probes[id].conn] = id
       /\ hooked[probes[id].conn]
  /\ \A i, j \in DOMAIN probes : probes[i].conn = probes[j].conn => i = j

\* An id was registered twice and the registry holds the second session.
RegistryUniquenessWitness ==
  \E id \in DOMAIN probes :
    /\ probes[id].conn = 2
    /\ displaced[2] = 1
    /\ connId[1] = id

\* A connection that replaced a registered session of its id and is open.
IsReplacement(c) == hooked[c] /\ displaced[c] # 0 /\ sock[c] = "open"
ReplacementKeepsRegistry ==
  \A c \in Conns :
    IsReplacement(c) =>
      /\ MapHas(probes, connId[c])
      /\ probes[connId[c]].conn = c
      /\ sock[displaced[c]] # "open"
ReplacementGetsTasks ==
  \A c \in Conns :
    (/\ IsReplacement(c)
     /\ Len(calls') = Len(calls) + 1
     /\ calls'[Len(calls')].probe = connId[c])
      => /\ calls'[Len(calls')].conn = c
         /\ calls'[Len(calls')].wrote
\* C3 (duplicate probe replacement): while a connection that replaced a
\* registered session of the same id is open, the registry entry of that id
\* is this connection and the replaced socket is not open any more, and
\* every sendTask to that id writes its task frame to this connection.
DuplicateReplacement ==
  []ReplacementKeepsRegistry /\ [][ReplacementGetsTasks]_vars

\* The calls of the broadcast in progress and the shape of its result map.
BroadcastCalls == {k \in 1..Len(calls) : calls[k].bc}
OwnResult(k, r) == r.id = k /\ (r = TaskTimeout(k) \/ IsReply(r))
BroadcastShape ==
  /\ bcast.status \in {"pending", "returned"} =>
       /\ {calls[k].probe : k \in BroadcastCalls} = bcast.snapshot
       /\ Cardinality(BroadcastCalls) = Cardinality(bcast.snapshot)
       /\ DOMAIN bcast.results \subseteq bcast.snapshot
       /\ \A k \in BroadcastCalls :
            /\ calls[k].taskId = k
            /\ MapHas(bcast.results, calls[k].probe) =>
                 /\ bcast.results[calls[k].probe] = calls[k].value
                 /\ OwnResult(k, calls[k].value)
  /\ bcast.status = "returned" => DOMAIN bcast.results = bcast.snapshot
  /\ bcast.status = "pending" => DOMAIN bcast.results # bcast.snapshot
  /\ (bcast.status # "idle" /\ bcast.snapshot = {}) =>
       bcast.status = "returned" /\ bcast.results = EmptyMap
         /\ BroadcastCalls = {}
\* C4 (broadcast completeness): a broadcast issues exactly one sendTask per
\* probe of its snapshot; while it is pending it holds entries of snapshot
\* probes only; when it has returned its map has exactly one entry per
\* snapshot probe, each the reply to or the timeout of that probe's own
\* task; a broadcast over an empty registry has returned with an empty map
\* and no task; and every pending broadcast eventually returns.
BroadcastCompleteness ==
  /\ []BroadcastShape
  /\ (bcast.status = "pending") ~> (bcast.status = "returned")

\* A broadcast over two probes has returned, one entry a reply and the
\* other a timeout result.
BroadcastCompletenessWitness ==
  /\ bcast.status = "returned"
  /\ bcast.snapshot = {"alpha", "beta"}
  /\ \E p, q \in bcast.snapshot :
       /\ bcast.results[p].success
       /\ bcast.results[q].error = "Task timeout"

\* The probe of call k did not deliver: timeout, failure, no write, no socket.
ProbeFailed(k) ==
  \/ calls[k].value = TaskTimeout(k)
  \/ (calls[k].value # NoResult /\ ~calls[k].value.success)
  \/ ~calls[k].wrote
  \/ sock[calls[k].conn] # "open"
\* C5 (per-probe isolation): a broadcast never rejects and none of its
\* tasks rejects; whenever one probe of the broadcast has failed (its task
\* timed out, it replied success:false, its task frame was not written, or
\* its socket is no longer open), every other probe's task is either still
\* waiting with its own timer armed or settled with the reply to or the
\* timeout of its own task, and that is what its entry holds.
PerProbeIsolation ==
  /\ bcast.status # "rejected"
  /\ \A k \in BroadcastCalls : calls[k].value # Rejected
  /\ \A j, k \in BroadcastCalls :
       (j # k /\ ProbeFailed(j)) =>
         IF calls[k].value = NoResult
         THEN /\ k \in pendingTasks
              /\ k \in timers
              /\ ~MapHas(bcast.results, calls[k].probe)
              /\ bcast.status = "pending"
         ELSE /\ OwnResult(k, calls[k].value)
              /\ MapHas(bcast.results, calls[k].probe)
              /\ bcast.results[calls[k].probe] = calls[k].value

\* A returned broadcast in which the task frame of one probe was not
\* written, because its socket was closing, and timed out, while the other
\* probe's entry is its successful reply.
PerProbeIsolationWitness ==
  /\ bcast.status = "returned"
  /\ \E j, k \in BroadcastCalls :
       /\ j # k
       /\ ~calls[j].wrote
       /\ calls[j].value = TaskTimeout(j)
       /\ calls[k].value = Result(k, TRUE, "")
       /\ bcast.results[calls[k].probe] = calls[k].value

\* What the route handler must have done with one connection request.
ParamMissing(id, region) ==
  id = NullParam \/ id = "" \/ region = NullParam \/ region = ""
PresentsSecret(id, auth) ==
  /\ auth.present
  /\ MapHas(probeSecrets, id)
  /\ auth.text = BearerPrefix \o probeSecrets[id]
RefusedWith(c, code) ==
  /\ closeCode'[c] = code
  /\ sock'[c] = "closing"
  /\ ~hooked'[c]
  /\ \A d \in Conns \ {c} : sock'[d] = sock[d]
  /\ UNCHANGED <<probes, hooked, connId, lastReg, displaced>>
ConnectOutcome(c, id, region, auth) ==
  /\ ParamMissing(id, region) => RefusedWith(c, 4002)
  /\ (~ParamMissing(id, region) /\ ~PresentsSecret(id, auth)) =>
       RefusedWith(c, 4001)
  /\ hooked'[c] =>
       /\ ~ParamMissing(id, region)
       /\ PresentsSecret(id, auth)
       /\ MapHas(probes', id)
       /\ probes'[id].conn = c
\* C6 (probe authentication): a connection request without id or region is
\* closed with 4002; one with both whose Authorization header is not
\* 'Bearer ' followed by the secret the current map holds for the id is
\* closed with 4001; a refused request attaches no handler and leaves the
\* registry, the other sockets and the sessions unchanged; a request is
\* registered only if it has id and region and presents exactly the secret.
ProbeAuthentication ==
  [][\A c \in Conns :
       (sock[c] = "fresh" /\ sock'[c] # "fresh") =>
         \A id \in IdParams, region \in RegionParams, auth \in Headers :
           Connect(c, id, region, auth) => ConnectOutcome(c, id, region, auth)
    ]_vars

\* A request was refused with 4001 while an earlier session is registered,
\* and that session is still in the registry with its socket open.
ProbeAuthenticationWitness ==
  /\ hooked[1]
  /\ sock[1] = "open"
  /\ MapHas(probes, connId[1])
  /\ probes[connId[1]].conn = 1
  /\ closeCode[2] = 4001

\* The map that holds exactly the entries of file f.
WholeMap(f) ==
  [id \in {f.entries[i][1] : i \in DOMAIN f.entries} |->
     f.entries[CHOOSE i \in DOMAIN f.entries :
                 /\ f.entries[i][1] = id
                 /\ \A j \in DOMAIN f.entries :
                      j > i => f.entries[j][1] # id][2]]
\* C7 (credentials atomicity): in every state, hence at every auth check,
\* the credentials map is one whole map, the empty map or the full content
\* of one credentials file, and once a valid file has been read the map is
\* exactly that file's content.
CredentialsAtomicity ==
  /\ probeSecrets \in {EmptyMap} \cup {WholeMap(f) : f \in ValidFiles}
  /\ (~fileDirty /\ fileContent \in ValidFiles) =>
       probeSecrets = WholeMap(fileContent)

\* beta authenticated under ConfigB, the only file that lets it in, alpha
\* authenticated too, and a reload has made the map the whole of ConfigA.
CredentialsAtomicityWitness ==
  /\ hooked[1]
  /\ connId[1] = "beta"
  /\ hooked[2]
  /\ connId[2] = "alpha"
  /\ probeSecrets = WholeMap(ConfigA)
  /\ ~fileDirty

\* C8 as stated: after a load or reload of a missing or unparseable file the
\* credentials map is empty.
EmptyAfterBadFile ==
  (~fileDirty /\ fileContent \notin ValidFiles) => probeSecrets = EmptyMap

\* C8 amended: after a load or reload of a missing file the credentials map
\* is empty; a reload of a file that is present but does not parse leaves
\* the map as it was; while the map is empty no request is registered.
EmptyAfterMissingFile ==
  /\ [](((~fileDirty /\ ~fileContent.exists) => probeSecrets = EmptyMap))
  /\ [][/\ (WatchPoll /\ fileContent.exists /\ fileContent \notin ValidFiles)
             => probeSecrets' = probeSecrets
        /\ probeSecrets = EmptyMap => hooked' = hooked
       ]_vars

\* An unparseable file has been reloaded and the map still holds secrets.
EmptyAfterMissingFileWitness ==
  /\ ~fileDirty
  /\ fileContent = FileGarbage
  /\ probeSecrets = WholeMap(ConfigB)

\* C9 (credentials hot-reload): every modification that leaves a valid file
\* on disk is eventually followed by the map being that file's content,
\* unless the file is modified again first.
HotReload ==
  \A f \in ValidFiles :
    (fileContent = f /\ fileDirty) ~>
      (probeSecrets = WholeMap(f) \/ fileContent # f)

\* A handleMessage step for a frame without a waiter is a no-op.
DroppedReplyLeaves ==
  \A c \in Conns, m \in Frames :
    (HandleMessage(c, m) /\ m.id \notin pendingTasks) =>
      UNCHANGED <<calls, pendingTasks, timers, bcast, probes, sock, hooked>>
\* C10 (late and unknown replies): handling a reply frame whose id is not a
\* key of the waiter map changes neither the calls and their results, the
\* waiter map, the armed timers, the broadcast in progress, the registry
\* nor any socket; and no call ever has resolve invoked on it twice.
LateReplyDropped ==
  /\ [][DroppedReplyLeaves]_vars
  /\ [](\A k \in 1..Len(calls) : calls[k].nres <= 1)

\* A reply for a task that had timed out, a second reply for an answered
\* task and a reply with an id nobody minted have all been handled.
LateReplyDroppedWitness ==
  /\ dropped = {"unknown", "stale"}
  /\ Len(calls) = 2
  /\ calls[1].value = TaskTimeout(1)
  /\ calls[2].value = Result(2, TRUE, "")

\* A connection goes down in this step: a probe closes, the close or error
\* event runs, or a connection is refused or replaced.
Teardown ==
  \E c \in Conns :
    sock'[c] # sock[c] /\ sock'[c] \in {"closing", "closed"}
\* Call k was written to a session that is no longer the registered one and
\* is still unresolved.
OrphanTask(k) ==
  /\ k <= Len(calls)
  /\ calls[k].taskId # 0
  /\ calls[k].value = NoResult
  /\ \/ ~MapHas(probes, calls[k].probe)
     \/ probes[calls[k].probe].conn # calls[k].conn
\* C11 (teardown does not notify the dispatcher): a step in which a
\* connection goes down changes neither the calls, the waiter map, the armed
\* timers nor the broadcast in progress; an unresolved task keeps its waiter
\* and its timer whatever happened to its probe; a task is only ever
\* resolved by a reply carrying its id or by its own timeout result; and a
\* task whose probe session vanished is eventually resolved.
TeardownSilent ==
  /\ [][Teardown => UNCHANGED <<calls, pendingTasks, timers, bcast>>]_vars
  /\ [](\A k \in CallIds :
          OrphanTask(k) => k \in pendingTasks /\ k \in timers)
  /\ [][\A k \in 1..Len(calls) :
          (calls[k].value = NoResult /\ calls'[k].value # NoResult) =>
            \/ calls'[k].value = TaskTimeout(k)
            \/ IsReply(calls'[k].value) /\ calls'[k].value.id = k]_vars
  /\ \A k \in CallIds :
       OrphanTask(k) ~> (/\ k <= Len(calls)
                         /\ \/ calls[k].value = TaskTimeout(k)
                            \/ IsReply(calls[k].value))

\* A task was written to a connection whose close event has run since; the
\* probe is gone from the registry and the task still waits with its timer.
TeardownSilentWitness ==
  \E k \in 1..Len(calls) :
    /\ OrphanTask(k)
    /\ calls[k].wrote
    /\ sock[calls[k].conn] = "closed"
    /\ ~MapHas(probes, calls[k].probe)
    /\ k \in pendingTasks
    /\ k \in timers

\* C20 (address round-trip): parseAddress of a written address returns the
\* host that was written, and the port that was written or, when none was
\* written, the default port 25565.
AddressRoundTrip ==
  (fn.name = "parseAddress" /\ fn.done) =>
    /\ fn.out.host = fn.written.host
    /\ fn.out.port = IF fn.written.port = 0 THEN DefaultPort
                     ELSE fn.written.port
    /\ fn.out.port # DefaultPort => fn.written.port # 0

\* A bracketed IPv6 literal followed by a port other than the default has
\* been parsed.
AddressRoundTripWitness ==
  /\ fn.name = "parseAddress"
  /\ fn.done
  /\ fn.written.brackets
  /\ fn.written.port = 19132
  /\ fn.out.port = 19132
  /\ IsIPv6(fn.out.host)

\* No query (name, type) occurs twice in the log.
AskedOnce(asked) ==
  \A i, j \in 1..Len(asked) : asked[i] = asked[j] => i = j
\* C19 (DNS chain collection terminates): every collectDnsRecords call
\* returns, for every zone, cycles of aliases included; during the call no
\* name is sent the same query twice, and resolveHostRecords goes past its
\* guard at most once per name.
CollectTerminates ==
  /\ [][fn'.name = "collectDnsRecords" =>
          /\ AskedOnce(fn'.asked)
          /\ Len(fn'.asked) <= 3 * Cardinality(fn'.resolved)]_vars
  /\ (fn.name = "collectDnsRecords") ~> fn.done

\* A call has returned in which the SRV target is an alias of the host and
\* the host an alias of the SRV target.
CollectTerminatesWitness ==
  /\ fn.name = "collectDnsRecords"
  /\ fn.done
  /\ fn.host = NameA
  /\ fn.srvRecord.target = NameB
  /\ fn.zone[NameB].cname = <<NameA>>
  /\ fn.zone[NameA].cname = <<NameB>>
  /\ fn.resolved = {NameA, NameB}

\* The getServerStatus call for protocol type has returned.
StatusDone(type) ==
  fn.name = "getServerStatus" /\ fn.done /\ fn.type = type
\* C16 (Bedrock default-port substitution, direct request): a Bedrock ping
\* goes to port 19132 when the address has no port and to the port written
\* in the address when it has one, and the status reports the pinged port.
BedrockPortSubstitution ==
  (StatusDone("bedrock") /\ fn.out.ping.sent) =>
    /\ fn.out.ping.port = IF fn.written.port = 0 THEN BedrockPort
                          ELSE fn.written.port
    /\ fn.out.status.port = fn.out.ping.port

\* The SRV record that the resolver has for the host of the request, and the
\* name the orchestrator has to connect to: the target of the SRV record for
\* a Java request on a name that has one, else the host.
SrvOf == ResolveSrvRecord(fn.zone, fn.written.host)
SrvAdopted ==
  fn.type = "java" /\ ~IsIpLiteral(fn.written.host) /\ SrvOf # NoSrv
ConnectName == IF SrvAdopted THEN SrvOf.target ELSE fn.written.host
\* C17 (Java SRV indirection and handshake host fidelity): a Java request on
\* a host that passes the hostname test and whose connect name resolves is
\* pinged with the host of the request address in the handshake; when the
\* host has an SRV record (T, P) the ping connects to the address that T
\* resolves to, at port P, and the status has the request host, port P and
\* ip_info.srv_record (T, P); without an SRV record and for literals the
\* ping goes to the port of the address and no SRV record is reported.
HandshakeHostFidelity ==
  (/\ StatusDone("java")
   /\ ~InvalidHostname(fn.written.host)
   /\ ResolveIp(fn.zone, ConnectName) # <<>>) =>
    /\ fn.out.ping.sent
    /\ fn.out.ping.transport = "tcp"
    /\ fn.out.ping.handshakeHost = fn.written.host
    /\ fn.out.status.host = fn.written.host
    /\ fn.out.ping.connectHost = ResolveIp(fn.zone, ConnectName)
    /\ SrvAdopted =>
         /\ fn.out.ping.port = SrvOf.port
         /\ fn.out.ping.handshakePort = SrvOf.port
         /\ fn.out.status.port = SrvOf.port
         /\ fn.out.status.ip_info.present
         /\ fn.out.status.ip_info.srv_record = SrvOf
    /\ ~SrvAdopted =>
         /\ fn.out.status.ip_info.srv_record = NoSrv
         /\ fn.out.ping.port = IF fn.written.port = 0 THEN DefaultPort
                               ELSE fn.written.port

\* A Java ping through an SRV record to another name: connected to the
\* address of the target, handshake with the request host.
HandshakeHostFidelityWitness ==
  /\ StatusDone("java")
  /\ fn.out.ping.sent
  /\ fn.written.host = NameA
  /\ SrvOf = [target |-> NameB, port |-> SrvPort]
  /\ fn.out.ping.connectHost = Addr4b
  /\ fn.out.ping.handshakeHost = NameA
  /\ fn.out.status.port = SrvPort
  /\ fn.out.status.online

\* C18 (DNS failure): when the host passes the hostname test and the connect
\* name is not a literal and has no address, the call returns online false
\* with the error "DNS resolution failed for <name>" and the request host,
\* and sends no ping.
DnsFailureNoPing ==
  (/\ fn.name = "getServerStatus"
   /\ fn.done
   /\ ~InvalidHostname(fn.written.host)
   /\ ~IsIpLiteral(ConnectName)
   /\ ResolveIp(fn.zone, ConnectName) = <<>>) =>
    /\ ~fn.out.status.online
    /\ fn.out.status.error = ErrDnsFailedFor \o ConnectName
    /\ fn.out.status.host = fn.written.host
    /\ fn.out.ping = NoPing

\* The host has an address but the target of its SRV record has none: the
\* call returned the failure for the target.
DnsFailureNoPingWitness ==
  /\ StatusDone("java")
  /\ fn.written.host = NameA
  /\ ResolveIp(fn.zone, NameA) = Addr4
  /\ SrvOf.target = NameB
  /\ fn.out.status.error = ErrDnsFailedFor \o NameB
  /\ ~fn.out.ping.sent

\* The request was answered with status code.
Answered(code) == distReq.phase = "done" /\ distReq.code = code
\* C12 (distributed refusals): the step that takes a request answers 400
\* with the missing-type message when the type is missing, whatever the
\* registry holds; 503 "No probe nodes available" when the type is there
\* and the registry is empty; and dispatches otherwise.  A refusal writes
\* no call, waiter, timer or broadcast and starts no DNS work, and tasks
\* are only ever dispatched for a request with a type on a registry that
\* is not empty.
RequestRefusals ==
  /\ [][(distReq.phase = "idle" /\ distReq'.phase # "idle") =>
          /\ Falsy(distReq'.type) =>
               distReq'.code = 400 /\ distReq'.error = ErrMissingType
          /\ (~Falsy(distReq'.type) /\ DOMAIN probes = {}) =>
               distReq'.code = 503 /\ distReq'.error = ErrNoProbes
          /\ (~Falsy(distReq'.type) /\ DOMAIN probes # {}) =>
               /\ distReq'.phase = "open"
               /\ Len(calls') = Len(calls) + Cardinality(DOMAIN probes)
          /\ distReq'.code \in {400, 503} =>
               /\ distReq'.phase = "done"
               /\ ~distReq'.dnsAsked
               /\ UNCHANGED <<calls, pendingTasks, timers, bcast>>]_vars
  /\ [][Len(calls') # Len(calls) =>
          /\ distReq.phase = "idle"
          /\ ~Falsy(distReq'.type)
          /\ DOMAIN probes # {}]_vars
  /\ []((Answered(400) \/ Answered(503)) =>
          calls = <<>> /\ pendingTasks = {} /\ timers = {})

\* A request without a type was answered 400 while two probes were
\* registered.
RequestRefusalsWitness ==
  /\ Answered(400)
  /\ distReq.error = ErrMissingType
  /\ DOMAIN probes = {"alpha", "beta"}
  /\ calls = <<>>

\* The status of a node without what the merge stamps on it.
Unstamped(status) == [status EXCEPT !.ip_info = NoIpInfo, !.type = "none"]
NodeRegionOfSession ==
  Answered(200) =>
    \A id \in DOMAIN distReq.nodes :
      \E k \in 1..Len(calls) :
        /\ calls[k].bc
        /\ calls[k].probe = id
        /\ distReq.nodes[id].node_region = ConnRegion(calls[k].conn)

\* C15 as stated (shared ip_info): every node of a response carries the
\* ip_info of the controller.
NodesShareIpInfo ==
  Answered(200) =>
    \A id \in DOMAIN distReq.nodes :
      distReq.nodes[id].status.ip_info = BaseIpInfo(distReq.dnsResult)

\* C15 (shared ip_info, amended): when the controller resolved an address,
\* every node of the response carries the controller's ip_info, whatever
\* the probe replied; when it resolved none, a node made from reply data
\* keeps the ip_info of that data and a node made for a failure has none.
NodesShareResolvedIpInfo ==
  Answered(200) =>
    \A id \in DOMAIN distReq.nodes :
      LET base == BaseIpInfo(distReq.dnsResult)
          data == ResultData(bcast.results[id], distReq.host,
                             distReq.targetPort, distReq.type)
      IN /\ base.present <=> distReq.dnsResult.ip # <<>>
         /\ distReq.nodes[id].status.ip_info =
              IF base.present THEN base
              ELSE IF data.present THEN data.status.ip_info
              ELSE NoIpInfo

\* A response in which the controller resolved the target through an SRV
\* record, with a node from reply data and a node from a timeout.
NodesShareResolvedIpInfoWitness ==
  /\ Answered(200)
  /\ distReq.dnsResult.srvRecord # NoSrv
  /\ distReq.dnsResult.ip = Addr4b
  /\ \E p, q \in DOMAIN distReq.nodes :
       /\ bcast.results[p].success
       /\ bcast.results[q] = TaskTimeout(bcast.results[q].id)
       /\ distReq.nodes[p].status.ip_info = distReq.nodes[q].status.ip_info
       /\ distReq.nodes[p].status.ip_info.ip = Addr4b


\* C21: for an integer n from 0 up to 2^31 - 1, writeVarInt(n) is one to
\* five bytes long, every byte but the last has the continuation bit set,
\* and readVarInt at offset 0 gives back n and the number of bytes written.
VarIntRoundTrip ==
  (fn.name = "varInt" /\ fn.done /\ fn.n >= 0 /\ fn.n <= MaxInt31) =>
    /\ Len(fn.bytes) \in 1..5
    /\ \A i \in 1..Len(fn.bytes) :
         /\ fn.bytes[i] \in 0..255
         /\ (fn.bytes[i] >= 128) <=> (i < Len(fn.bytes))
    /\ ~fn.out.throws
    /\ fn.out.value = fn.n
    /\ fn.out.length = Len(fn.bytes)

\* The largest 31-bit integer was written in five bytes and read back.
VarIntRoundTripWitness ==
  /\ fn.name = "varInt"
  /\ fn.done
  /\ fn.n = MaxInt31
  /\ fn.bytes = <<255, 255, 255, 255, 7>>
  /\ fn.out.value = MaxInt31

\* C22: cleaning a cleaned MOTD changes nothing, and a cleaned MOTD holds
\* no section sign followed by a format code.
MotdIdempotence ==
  (fn.name = "cleanMotd" /\ fn.done) =>
    /\ fn.again = fn.out
    /\ \A i \in 1..Len(fn.out) : ~IsFormatPair(fn.out, i)

\* C23: a pingJavaServer call never rejects, calls resolve at most once,
\* resolves with a status of the codec (the parsed status or 'Invalid JSON
\* response' from the data handler, 'timeout' from the timeout handler, the
\* error's message from the error handler), and every call is resolved in
\* the end, whatever its peer does.
JavaPingOutcome ==
  fn.name = "pingJavaServer" =>
    /\ fn.settled # "rejected"
    /\ fn.resolveCalls <= 1
    /\ fn.settled = "resolved" =>
         \/ fn.by = "data" /\ fn.result.host = fn.host /\ fn.result.port = fn.port
              /\ \/ fn.result.online /\ fn.result.error = NoError
                 \/ ~fn.result.online /\ fn.result.error = ErrInvalidJson
         \/ fn.by = "timeout"
              /\ fn.result = JavaStatus(FALSE, fn.host, fn.port, ErrTimeout, NoFavicon)
         \/ fn.by = "error"
              /\ fn.result = JavaStatus(FALSE, fn.host, fn.port, ErrConnReset, NoFavicon)
JavaPingResolves ==
  /\ []JavaPingOutcome
  /\ (fn.name = "pingJavaServer") ~> (fn.settled = "resolved")

\* The length of the frame a stream starts with, from its packet length.
FrameLength(stream) ==
  ReadVarInt(stream, 0).length + ReadVarInt(stream, 0).value
WholeStream == ParseResponse(fn.stream, fn.host, fn.port)

\* C27: when the peer's bytes hold a complete status frame, the data
\* handler resolves the ping exactly when the last byte of the frame has
\* arrived, in however many events, and with the status that parseResponse
\* gives for the whole stream in one buffer.
IncrementalDecoding ==
  (fn.name = "pingJavaServer" /\ fn.stream \in FrameStreams) =>
    /\ ~WholeStream.throws /\ WholeStream.found
    /\ fn.sent < FrameLength(fn.stream) =>
         fn.by # "data"
    /\ fn.by = "data" =>
         /\ fn.sent >= FrameLength(fn.stream)
         /\ fn.result = WholeStream.status
    /\ fn.sent >= FrameLength(fn.stream) =>
         /\ fn.by = "data"
         /\ fn.settled = "resolved"
         /\ fn.result = WholeStream.status

\* A frame arrived in four events, the first of which cut its packet length
\* in two, and the ping resolved with the status of the whole frame.
IncrementalDecodingWitness ==
  /\ fn.name = "pingJavaServer"
  /\ fn.stream = WideStatusFrame(JsonEmptyObject)
  /\ fn.events = 4
  /\ fn.by = "data"
  /\ fn.settled = "resolved"
  /\ fn.result = JavaStatus(TRUE, fn.host, fn.port, NoError, NoFavicon)
  /\ fn.buffer = fn.stream
  /\ Len(fn.stream) = 6

\* The tasks for which sendTask inserted a waiter and whose caller has no
\* result yet.
Waiting ==
  {k \in 1..Len(calls) : calls[k].taskId # 0 /\ calls[k].value = NoResult}

\* C24: the keys of the waiter map are the tasks whose caller still waits,
\* a timer is armed for exactly the keys of the map, and when no caller
\* waits any more the map is empty.
WaiterMap ==
  /\ pendingTasks = Waiting
  /\ timers = pendingTasks
  /\ (\A k \in 1..Len(calls) : calls[k].value # NoResult) => pendingTasks = {}

\* Of two tasks the first was answered, which took its waiter and its timer
\* away, and the second is still waiting with its timer armed.
WaiterMapWitness ==
  /\ Len(calls) = 2
  /\ IsReply(calls[1].value)
  /\ calls[2].value = NoResult
  /\ pendingTasks = {2}
  /\ timers = {2}

\* C25: a reload of a file that is present and does not parse (JSON.parse
\* throws, or the text parses to null and no entry can be read from it)
\* leaves the credentials map as it was: the same ids with the same secrets.
FailedReloadKeepsMap ==
  [][(WatchPoll /\ fileContent.exists /\ fileContent.json # "object") =>
       /\ DOMAIN probeSecrets' = DOMAIN probeSecrets
       /\ \A id \in DOMAIN probeSecrets : probeSecrets'[id] = probeSecrets[id]
    ]_vars

\* ConfigA was loaded, the file was then overwritten with text that does
\* not parse and reloaded, and alpha still gets in with ConfigA's secret.
FailedReloadKeepsMapWitness ==
  /\ ~fileDirty
  /\ fileContent = FileGarbage
  /\ probeSecrets = WholeMap(ConfigA)
  /\ hooked[1]
  /\ connId[1] = "alpha"
  /\ sock[1] = "open"

\* A frame that answers no pending task: text that is not JSON, JSON that
\* is no object, or a result whose id is not a key of the waiter map.
Malformed(m) == m.text # "object" \/ m.id \notin pendingTasks

\* C26: handling a malformed frame leaves the registry, the waiter map, the
\* armed timers and every call as they were; the session it came from keeps
\* its registry entry, its open socket and its message handler, which is
\* all that the handling of its next frame depends on.
MalformedFrameDropped ==
  [][\A c \in Conns, m \in Frames \cup MalformedFrames :
       (HandleMessage(c, m) /\ Malformed(m)) =>
         /\ UNCHANGED <<probes, pendingTasks, timers, calls, bcast>>
         /\ UNCHANGED <<sock, hooked, connId, closeCode>>
    ]_vars

\* Frames of every malformed kind have been handled while a task waits for
\* its reply on a registered session, and its waiter and timer are in place.
MalformedFrameDroppedWitness ==
  /\ dropped = {"invalid", "unknown", "stale"}
  /\ Len(calls) = 2
  /\ calls[1].value = TaskTimeout(1)
  /\ calls[2].value = NoResult
  /\ pendingTasks = {2}
  /\ timers = {2}
  /\ MapHas(probes, calls[2].probe)
  /\ probes[calls[2].probe].conn = calls[2].conn
  /\ sock[calls[2].conn] = "open"

\* The address of the request as parseAddress reads it, and the port the
\* request is probed on: the port of the SRV record when one is adopted,
\* 19132 for Bedrock on the default port, the parsed port otherwise.
Parsed == ParseAddress(fn.address)
ProbedPort ==
  IF ~InvalidHostname(Parsed.host) /\ SrvAdopted THEN SrvOf.port
  ELSE IF fn.type = "bedrock" /\ Parsed.port = DefaultPort THEN BedrockPort
  ELSE Parsed.port

\* C28: the status of every getServerStatus call, whichever way the call
\* ended, carries the parsed host and the probed port, and a ping that was
\* sent went to that port.
HostPortEcho ==
  (fn.name = "getServerStatus" /\ fn.done) =>
    /\ fn.out.status.host = Parsed.host
    /\ fn.out.status.port = ProbedPort
    /\ fn.out.ping.sent => fn.out.ping.port = ProbedPort

\* A Java request for a.io on port 25570 whose SRV record points to b.io:
\* the ping went to b.io's address on the record's port and was answered,
\* and the status names a.io and the record's port.
HostPortEchoWitness ==
  /\ StatusDone("java")
  /\ fn.written.host = NameA
  /\ fn.written.port = 25570
  /\ SrvOf.target = NameB
  /\ fn.out.ping.sent
  /\ fn.out.ping.connectHost = Addr4b
  /\ fn.out.status.online
  /\ fn.out.status.host = NameA
  /\ fn.out.status.port = SrvPort

\* A host that is not worth a query: no literal, and shorter than four
\* characters or shorter than ten without a dot.
Garbage(host) ==
  /\ ~(IsIPv4(host) \/ IsIPv6(host))
  /\ \/ Len(host) < 4
     \/ Len(host) < 10 /\ ~Includes(host, ".")

\* C29: for a garbage host getServerStatus returns online false with the
\* error 'Invalid hostname', having sent no DNS query and no ping; for every
\* other host it goes on to resolution: it calls resolveIp, asks the
\* resolver unless the host is a literal, and does not answer 'Invalid
\* hostname'.
InvalidHostnameFastFail ==
  (fn.name = "getServerStatus" /\ fn.done) =>
    IF Garbage(Parsed.host)
    THEN /\ ~fn.out.status.online
         /\ fn.out.status.error = ErrInvalidHostname
         /\ fn.out.queries = <<>>
         /\ fn.out.lookedUp = <<>>
         /\ fn.out.ping = NoPing
    ELSE /\ fn.out.lookedUp # <<>>
         /\ fn.out.status.error # ErrInvalidHostname
         /\ ~IsIpLiteral(Parsed.host) =>
              \E i \in 1..Len(fn.out.queries) :
                fn.out.queries[i][2] \in {"SRV", "A"}

\* A Java request for 'localhost', nine characters without a dot, was
\* refused without a query or a ping.
InvalidHostnameFastFailWitness ==
  /\ StatusDone("java")
  /\ fn.written.host = NineName
  /\ fn.out.status.error = ErrInvalidHostname
  /\ ~fn.out.status.online
  /\ fn.out.queries = <<>>
  /\ ~fn.out.ping.sent

\* The records and the queries of the call under a hostname, in order.
RecordsOf(h) == SelectSeq(fn.records, LAMBDA r : r.hostname = h)
QueriesOf(h) == SelectSeq(fn.asked, LAMBDA q : q[1] = h)
\* The names the walk reaches from a name by following first aliases.
RECURSIVE AliasChain(_, _)
AliasChain(h, seen) ==
  IF h \in seen \/ IsIPv4(h) \/ IsIPv6(h) THEN seen
  ELSE IF Lookup(fn.zone, h).cname = <<>> THEN seen \cup {h}
  ELSE AliasChain(Lookup(fn.zone, h).cname[1], seen \cup {h})
WalkedNames ==
  IF IsIPv4(fn.host) \/ IsIPv6(fn.host) THEN {}
  ELSE IF fn.srvRecord = NoSrv THEN AliasChain(fn.host, {})
  ELSE AliasChain(fn.host, AliasChain(fn.srvRecord.target, {}))

\* C30: in a collectDnsRecords call that has returned, a hostname with a
\* CNAME answer was asked the CNAME query only and has one record, the CNAME
\* to its first alias; a hostname without one was asked CNAME, A and AAAA and
\* has its A records followed by its AAAA records; and the hostnames walked
\* are those reached from the host and the SRV target through first aliases.
CnameExclusive ==
  (fn.name = "collectDnsRecords" /\ fn.done) =>
    /\ fn.resolved = WalkedNames
    /\ \A h \in fn.resolved :
         LET answers == Lookup(fn.zone, h)
         IN IF answers.cname # <<>>
            THEN /\ RecordsOf(h) = <<DnsRecord(h, "CNAME", answers.cname[1])>>
                 /\ QueriesOf(h) = << <<h, "CNAME">> >>
            ELSE /\ RecordsOf(h) = ARecords(h, answers.a)
                                     \o AAAARecords(h, answers.aaaa)
                 /\ QueriesOf(h) = << <<h, "CNAME">>, <<h, "A">>, <<h, "AAAA">> >>
    /\ \A i \in 1..Len(fn.records) :
         fn.records[i].type \in {"CNAME", "A", "AAAA"} =>
           fn.records[i].hostname \in fn.resolved

\* a.io has the aliases b.io and c.io and addresses of its own; the call
\* recorded the alias to b.io and b.io's addresses, nothing else under a.io
\* and nothing about c.io.
CnameExclusiveWitness ==
  /\ fn.name = "collectDnsRecords"
  /\ fn.done
  /\ fn.host = NameA
  /\ fn.srvRecord = NoSrv
  /\ fn.zone[NameA].cname = <<NameB, NameC>>
  /\ fn.zone[NameA].a = <<Addr4>>
  /\ fn.zone[NameC].a # <<>>
  /\ fn.records = <<DnsRecord(NameA, "CNAME", NameB),
                    DnsRecord(NameB, "A", Addr4),
                    DnsRecord(NameB, "A", Addr4b),
                    DnsRecord(NameB, "AAAA", Addr6)>>
  /\ fn.resolved = {NameA, NameB}

\* C31: a wrapped lookup never rejects, is settled by the first of its
\* events and by that one only, with the lookup's answer when the answer
\* came first and with the fallback when the error or the timer came first,
\* so that whoever awaits it goes on; and it is settled in the end even if
\* the resolver stays silent.
WrappedLookupOutcome ==
  fn.name = "withTimeout" =>
    /\ fn.race.state # "rejected"
    /\ (fn.race.state = "pending") <=> (fn.first = "none")
    /\ fn.first = "answer" => fn.race = Fulfilled(fn.answer)
    /\ fn.first \in {"error", "timer"} => fn.race = Fulfilled(fn.fallback)
WrappedLookupSettles ==
  /\ []WrappedLookupOutcome
  /\ [][fn.name = "withTimeout" /\ fn.race.state # "pending" =>
          fn'.race = fn.race]_vars
  /\ (fn.name = "withTimeout") ~> (fn.race.state = "fulfilled")

\* The resolver failed, the call had the fallback, and the timer fired
\* afterwards without changing it.
WrappedLookupSettlesWitness ==
  /\ fn.name = "withTimeout"
  /\ fn.answer = <<Addr4, Addr4b>>
  /\ fn.first = "error"
  /\ fn.lookup = "rejected"
  /\ fn.timer = "fired"
  /\ fn.handed = 2
  /\ fn.race = Fulfilled(<<>>)

\* C32: a pingBedrockServer call makes one attempt (one socket, at most
\* one datagram sent), never rejects, resolves once with the outcome of
\* the first of datagram, socket error and timeout, closes its socket once,
\* and every call is resolved in the end.
BedrockOutcome ==
  fn.name = "pingBedrockServer" =>
    /\ fn.settled # "rejected"
    /\ fn.attempt = 0 /\ fn.sockets <= 1 /\ fn.sent <= 1 /\ fn.closes <= 1
    /\ fn.resolveCalls <= 1
    /\ fn.settled = "resolved" =>
         /\ fn.closes = 1 /\ fn.socket = "closed"
         /\ \/ fn.by = "message"
                 /\ fn.result = ParseUnconnectedPong(fn.msg, fn.host, fn.port)
            \/ fn.by = "error"
                 /\ fn.result = ServerStatus(FALSE, fn.host, fn.port, fn.err)
            \/ fn.by = "timeout"
                 /\ fn.result = ServerStatus(FALSE, fn.host, fn.port, ErrTimeout)
BedrockNoRetry ==
  /\ []BedrockOutcome
  /\ (fn.name = "pingBedrockServer") ~> (fn.settled = "resolved")

\* C33: the step that takes a request with a type on a registry that is
\* not empty makes a sendTask call for every registered probe and writes
\* the frame to every one whose socket is open, in that same step, when no
\* DNS answer has come to the route; and whatever the DNS work gives (the
\* hostname test failed, no SRV record, no address), the response has one
\* node for every probe of that broadcast, with the status it would have
\* without any DNS result, apart from ip_info.
BroadcastBeforeDns ==
  /\ [][(distReq.phase = "idle" /\ distReq'.phase # "idle"
          /\ ~Falsy(distReq'.type) /\ DOMAIN probes # {}) =>
          /\ distReq'.phase = "open"
          /\ distReq'.dnsAsked => distReq'.dns = "pending"
          /\ ~IsIpLiteral(distReq'.host) => distReq'.dnsResult = NoDnsResult
          /\ bcast'.snapshot = DOMAIN probes
          /\ \A id \in DOMAIN probes :
               \E k \in (Len(calls) + 1)..Len(calls') :
                 /\ calls'[k].probe = id
                 /\ calls'[k].bc
                 /\ calls'[k].conn = probes[id].conn
                 /\ sock[probes[id].conn] = "open" => calls'[k].wrote]_vars
  /\ [](Answered(200) =>
          /\ DOMAIN distReq.nodes = bcast.snapshot
          /\ bcast.snapshot # {}
          /\ \A id \in DOMAIN distReq.nodes :
               Unstamped(distReq.nodes[id].status) =
                 Unstamped(NodeResult([distReq EXCEPT !.dnsResult = NoDnsResult],
                                      probes, id, bcast.results[id]).status))

\* A request for a hostname that fails the test was answered with the nodes
\* of two probes, one of them online, and no DNS result.
BroadcastBeforeDnsWitness ==
  /\ Answered(200)
  /\ distReq.host = ShortName
  /\ ~distReq.dnsAsked
  /\ distReq.dnsResult = NoDnsResult
  /\ Cardinality(DOMAIN distReq.nodes) = 2
  /\ \E p \in DOMAIN distReq.nodes : distReq.nodes[p].status.online

\* C34: parseAddress returns for every address, with a port in 0..65535,
\* and with the default port 25565 when the text after the colon is empty
\* or does not start with a number.
PortInRange ==
  (fn.name = "parseAddress" /\ fn.done) =>
    /\ fn.out.host = fn.written.host
    /\ fn.out.port \in 0..65535
    /\ ParseInt(fn.written.text).nan => fn.out.port = DefaultPort

\* C35: a task is resolved by a reply only if the reply came in on a
\* session of the probe the task was dispatched to: in the step in which
\* the value of a call becomes a probe's reply, some connection that
\* announced that probe's id can deliver frames (its handlers are installed
\* and it is open or closing), so that a frame with the task's id that
\* arrives when the probe has no such session, which only another probe's
\* session can have sent, resolves nothing.
ReplyOrigin ==
  [][\A k \in 1..Len(calls) :
       (calls[k].value = NoResult /\ IsReply(calls'[k].value)) =>
         \E c \in Conns :
           /\ connId[c] = calls[k].probe
           /\ hooked[c]
           /\ sock[c] \in {"open", "closing"}]_vars

\* C36: in a response, the status made up for a node whose task failed or
\* timed out shows the port that was put into the task frames of the
\* request: 19132 for a Bedrock request whose address gave the default
\* port.
FallbackPort ==
  Answered(200) =>
    \A id \in DOMAIN distReq.nodes :
      ~bcast.results[id].success =>
        /\ distReq.nodes[id].status.port = distReq.targetPort
        /\ (distReq.type = "bedrock" /\ distReq.port = DefaultPort) =>
             distReq.nodes[id].status.port = BedrockPort

\* C37: a reload of the credentials (the step that clears the pending file
\* change) leaves the registry, every socket and session, the calls, the
\* waiter map, the timers and the broadcast as they were; a task sent to a
\* registered probe is written to its open socket whatever the map holds
\* for its id by then; and a connection is accepted only when it presents
\* the secret that the map holds at the time of the attempt, and closed
\* with 4001 otherwise.
ReloadFrame ==
  /\ [][(fileDirty /\ ~fileDirty') =>
          /\ UNCHANGED <<probes, sock, connId, hooked, closeCode, lastReg,
                         displaced>>
          /\ UNCHANGED <<calls, pendingTasks, timers, bcast>>]_vars
  /\ [][\A k \in (Len(calls) + 1)..Len(calls') :
          (MapHas(probes, calls'[k].probe)
             /\ sock[probes[calls'[k].probe].conn] = "open") =>
            /\ calls'[k].wrote
            /\ calls'[k].conn = probes[calls'[k].probe].conn
            /\ k \in pendingTasks']_vars
  /\ [][\A c \in Conns, id \in ProbeIds :
          (sock[c] = "fresh" /\ sock'[c] # "fresh") =>
            /\ (hooked'[c] /\ connId'[c] = id) =>
                 ValidateProbeAuth(probeSecrets, id, ProbeHeader(id))
            /\ ~hooked'[c] => closeCode'[c] = 4001]_vars

\* alpha's session was accepted under ConfigB; ConfigC, which has no alpha,
\* is loaded; a second connection of alpha was refused with 4001; the first
\* session is still registered and open, and a task written to it waits.
ReloadFrameWitness ==
  /\ probeSecrets = WholeMap(ConfigC)
  /\ ~fileDirty
  /\ hooked[1] /\ connId[1] = "alpha" /\ sock[1] = "open"
  /\ MapHas(probes, "alpha") /\ probes["alpha"].conn = 1
  /\ closeCode[2] = 4001
  /\ \E k \in pendingTasks : calls[k].probe = "alpha" /\ calls[k].wrote
====
